---- MODULE Spec2Model ----
(***************************************************************************)
(* Model of the Pintos storage layer of andyzengmath/AOS: the persistent   *)
(* free-space bitmap (free-map.c), the contiguous-extent inode layer with  *)
(* its open-inode cache (inode.c), the file handle (file.c) and the        *)
(* filesystem coordinator (filesys.c).                                     *)
(*                                                                         *)
(* Every C function is an operator over a "world" record w that carries    *)
(* the kernel's global state; a function that returns a value returns a    *)
(* record [w |-> world after the call, v |-> value].  An action of the     *)
(* state machine is one whole call of a public entry point.                *)
(***************************************************************************)
EXTENDS Integers, Sequences, FiniteSets, TLC

\* ------------------------------------------------------------------ bounds
\* Number of sectors of the file-system device, block_size (fs_device).
NumSectors == 7
\* BLOCK_SECTOR_SIZE, scaled down from 512 bytes.
BLOCK_SECTOR_SIZE == 2
\* Number of struct file objects the kernel heap can hold at once.
MaxFiles == 3
\* Largest count passed to free_map_allocate and free_map_release directly.
MaxCnt == 3
NumThreads == 2
MAX_OPEN_FILES == 4
MaxCalls == 2

\* ------------------------------------------------------- program constants
FREE_MAP_SECTOR == 0
ROOT_DIR_SECTOR == 1
NULL == 0
BITMAP_ERROR == -1

Sectors == 0 .. (NumSectors - 1)
FilePtrs == 1 .. MaxFiles
\* File names of the root directory: one-character strings, as byte sequences.
Names == {<<1>>, <<2>>}
\* NAME_MAX + 1, the size of a symbolic link's file: less than a sector, as
\* 15 is less than 512, so that a link is read and written through the bounce
\* buffer.
LINK_SIZE == BLOCK_SECTOR_SIZE - 1
\* Sizes a caller passes to create, read and write: up to two sectors.
Sizes == 0 .. (BLOCK_SECTOR_SIZE + 1)
\* Offsets up to the end of the largest file and one sector beyond.
Offsets == 0 .. (2 * BLOCK_SECTOR_SIZE)
\* Initial sizes of no sector, one full sector, and two sectors.
CreateSizes == {0, BLOCK_SECTOR_SIZE, BLOCK_SECTOR_SIZE + 1}
\* Initial sizes of the plain files made beside symbolic links.
LinkSizes == {0, 1}
\* open_cnt is capped so that leaked references keep the model finite.
MaxOpenCnt == MaxFiles
\* Kernel threads that call into the file system at the same time.
Threads == 1 .. NumThreads
\* The file descriptors open () hands out: 0 and 1 are not files of a caller.
Fds == 2 .. (MAX_OPEN_FILES - 1)
\* The entries of a descriptor table that hold files: entry 0 is the handle on
\* the process's executable, which exit closes last.
Slots == {0} \cup Fds

VARIABLES
  free_map,       \* the in-memory bitmap: [Sectors -> BOOLEAN]
  free_map_file,  \* struct file * of the free-map file, or NULL
  disk,           \* the block device: [Sectors -> sector content]
  open_inodes,    \* list of in-memory inodes (struct inode), front first
  files,          \* heap of struct file: [FilePtrs -> file record]
  dir,            \* entries of the root directory: [Names -> sector or -1]
  panic,          \* "" while running, else the reason the kernel halted
  last,           \* the last call made and what it returned
  free_map_lock,  \* struct lock free_map_lock: the holder, NULL when free
  filesys_mutex,  \* struct semaphore filesys_mutex: its value
  thread          \* where each thread is in the call it makes, its locals

vars == <<free_map, free_map_file, disk, open_inodes, files, dir, panic,
          last, free_map_lock, filesys_mutex, thread>>

\* ------------------------------------------------------------ the world
W(f) ==
  [free_map |-> free_map, free_map_file |-> free_map_file, disk |-> disk,
   open_inodes |-> open_inodes, files |-> files, dir |-> dir,
   panic |-> panic, fail |-> f, junk |-> 0, allocs |-> {}, held |-> FALSE]

\* What a piece of code running in the state leaves behind it.
Store(w) ==
  /\ free_map' = w.free_map
  /\ free_map_file' = w.free_map_file
  /\ disk' = w.disk
  /\ open_inodes' = w.open_inodes
  /\ files' = w.files
  /\ dir' = w.dir
  /\ panic' = w.panic

\* A call that runs from entry to return with no other thread in between: the
\* locks it takes it gives back.
Commit(w) ==
  /\ Store(w)
  /\ UNCHANGED <<free_map_lock, filesys_mutex, thread>>

\* The kernel's state is w.
Holds(w) ==
  /\ free_map = w.free_map
  /\ free_map_file = w.free_map_file
  /\ disk = w.disk
  /\ open_inodes = w.open_inodes
  /\ files = w.files
  /\ dir = w.dir
  /\ panic = w.panic

PANIC(w, why) == IF w.panic = "" THEN [w EXCEPT !.panic = why] ELSE w

\* w.fail and w.junk are inputs of the call being run, not kernel state:
\* malloc/calloc fails when it is the call's w.fail-th allocation, and w.junk is
\* the value of the bytes of a local array that the call never initialised.
\* w.allocs is the call's record of what free_map_allocate returned in it:
\* the pairs <<cnt, sector>>.  w.held says whether the thread that runs the
\* call holds free_map_lock.
MallocOk(w) == w.fail # 1
MallocStep(w) == [w EXCEPT !.fail = IF w.fail > 0 THEN w.fail - 1 ELSE 0]
Returned(w, cnt, sector) == [w EXCEPT !.allocs = @ \cup {<<cnt, sector>>}]

\* lock_acquire (&free_map_lock) and lock_release (&free_map_lock) in a call
\* that no other thread interrupts: lock_acquire asserts that the thread does
\* not hold the lock already, lock_release that it does.
lock_acquire(w) ==
  IF w.panic # "" THEN w
  ELSE IF w.held
  THEN PANIC(w, "assertion failed: !lock_held_by_current_thread (lock)")
  ELSE [w EXCEPT !.held = TRUE]

lock_release(w) ==
  IF w.panic # "" THEN w
  ELSE IF ~w.held
  THEN PANIC(w, "assertion failed: lock_held_by_current_thread (lock)")
  ELSE [w EXCEPT !.held = FALSE]

\* Sequencing: the value v of one statement, handed to the statements after it.
Let(v, Rest(_)) == Rest(v)

\* ------------------------------------------------------- sector contents
ZeroBytes == [i \in 1 .. BLOCK_SECTOR_SIZE |-> 0]
JunkBytes == [i \in 1 .. BLOCK_SECTOR_SIZE |-> 2]
DataSector(b) == [t |-> "data", v |-> b]
InodeSector(d) == [t |-> "inode", v |-> d]
BitsSector(b) == [t |-> "bits", v |-> b]
\* struct inode_disk
InodeDisk(start, length, is_symlink) ==
  [start |-> start, length |-> length, is_symlink |-> is_symlink]
\* What block_read delivers as bytes / as an inode record from any sector.
AsBytes(c) == IF c.t = "data" THEN c.v ELSE JunkBytes
AsInode(c) == IF c.t = "inode" THEN c.v ELSE InodeDisk(0, 0, FALSE)

block_write(w, sector, c) ==
  IF sector \in Sectors THEN [w EXCEPT !.disk[sector] = c]
  ELSE PANIC(w, "block_write: bad sector")

\* ------------------------------------------------------------ lib bitmap
Range(start, cnt) == start .. (start + cnt - 1)

bitmap_contains(b, start, cnt, value) ==
  \E i \in Range(start, cnt) : b[i] = value

bitmap_all(b, start, cnt) == ~bitmap_contains(b, start, cnt, FALSE)

bitmap_set_multiple(b, start, cnt, value) ==
  [i \in Sectors |-> IF i \in Range(start, cnt) THEN value ELSE b[i]]

bitmap_scan(b, start, cnt, value) ==
  LET ok == {i \in start .. (NumSectors - cnt) :
               ~bitmap_contains(b, i, cnt, ~value)}
  IN  IF cnt <= NumSectors /\ ok # {}
      THEN CHOOSE i \in ok : \A j \in ok : i <= j
      ELSE BITMAP_ERROR

bitmap_scan_and_flip(b, start, cnt, value) ==
  LET idx == bitmap_scan(b, start, cnt, value)
  IN  [idx |-> idx,
       b |-> IF idx # BITMAP_ERROR
             THEN bitmap_set_multiple(b, idx, cnt, ~value) ELSE b]

\* --------------------------------------------------------- inode cache
\* struct inode: ptr is the object's address.
Inode(ptr, sector, data) ==
  [ptr |-> ptr, sector |-> sector, open_cnt |-> 1, removed |-> FALSE,
   deny_write_cnt |-> 0, data |-> data]

Idx(w, p) ==
  IF \E i \in 1 .. Len(w.open_inodes) : w.open_inodes[i].ptr = p
  THEN CHOOSE i \in 1 .. Len(w.open_inodes) : w.open_inodes[i].ptr = p
  ELSE 0

\* p points to a struct inode that has not been freed.
Live(w, p) == Idx(w, p) # 0
Ino(w, p) == w.open_inodes[Idx(w, p)]

RemoveAt(s, i) == SubSeq(s, 1, i - 1) \o SubSeq(s, i + 1, Len(s))

bytes_to_sectors(size) ==
  (size + BLOCK_SECTOR_SIZE - 1) \div BLOCK_SECTOR_SIZE

\* byte_to_sector that gives the first sector of the run for every position.
byte_to_sector_first(ino, pos) ==
  IF pos < ino.data.length THEN ino.data.start ELSE -1

byte_to_sector(ino, pos) ==
  IF pos < ino.data.length
  THEN ino.data.start + (pos \div BLOCK_SECTOR_SIZE)
  ELSE -1

inode_length(ino) == ino.data.length

\* ------------------------------------------------------------- free map
\* The bitmap stored in the free-map file is b.
Persisted(w, b) ==
  /\ w.disk[FREE_MAP_SECTOR].t = "inode"
  /\ w.disk[FREE_MAP_SECTOR].v.start \in Sectors
  /\ w.disk[w.disk[FREE_MAP_SECTOR].v.start].t = "bits"
  /\ w.disk[w.disk[FREE_MAP_SECTOR].v.start].v = b

Blank ==
  [free_map |-> [i \in Sectors |-> FALSE], free_map_file |-> NULL,
   disk |-> [i \in Sectors |-> DataSector(JunkBytes)],
   open_inodes |-> << >>,
   files |-> [f \in FilePtrs |->
                [live |-> FALSE, inode |-> NULL, pos |-> 0,
                 deny_write |-> FALSE]],
   dir |-> [n \in Names |-> -1], panic |-> "", fail |-> 0,
   junk |-> 0, allocs |-> {}, held |-> FALSE]

\* free_map_init that marks the free-map sector only.
free_map_init_one_mark(w) ==
  [w EXCEPT !.free_map = [i \in Sectors |-> i = FREE_MAP_SECTOR]]

free_map_init(w) ==
  [w EXCEPT !.free_map =
     [i \in Sectors |-> i = FREE_MAP_SECTOR \/ i = ROOT_DIR_SECTOR]]

\* lib bitmap_write: file_write_at (file, bits, size, 0) == size.  The bitmap is
\* shorter than a sector, so inode_write_at goes through a bounce buffer and
\* writes nothing when that malloc fails or writes are denied.
bitmap_write(w) ==
  LET f == w.files[w.free_map_file]
      w1 == MallocStep(w)
  IN  IF ~(w.free_map_file \in FilePtrs /\ f.live /\ Live(w, f.inode))
      THEN [w |-> PANIC(w, "bitmap_write: bad free_map_file"), v |-> FALSE]
      ELSE IF Ino(w, f.inode).deny_write_cnt # 0
             \/ inode_length(Ino(w, f.inode)) = 0
      THEN [w |-> w, v |-> FALSE]
      ELSE IF ~MallocOk(w)
      THEN [w |-> w1, v |-> FALSE]
      ELSE [w |-> block_write(w1, Ino(w, f.inode).data.start,
                              BitsSector(w.free_map)),
            v |-> TRUE]

\* lib bitmap_read: file_read_at (file, bits, size, 0) == size.
bitmap_read(w) ==
  LET f == w.files[w.free_map_file]
      w1 == MallocStep(w)
      c == w.disk[Ino(w, f.inode).data.start]
  IN  IF ~(w.free_map_file \in FilePtrs /\ f.live /\ Live(w, f.inode))
      THEN [w |-> PANIC(w, "bitmap_read: bad free_map_file"), v |-> FALSE]
      ELSE IF ~MallocOk(w) \/ inode_length(Ino(w, f.inode)) = 0
      THEN [w |-> w1, v |-> FALSE]
      ELSE [w |-> IF c.t = "bits" THEN [w1 EXCEPT !.free_map = c.v] ELSE w1,
            v |-> TRUE]

\* free_map_allocate that keeps the flipped bits when the write fails.
free_map_allocate_no_rollback(w, cnt, sectorp) ==
  IF w.panic # "" THEN [w |-> w, v |-> FALSE, sectorp |-> sectorp]
  ELSE
  Let(bitmap_scan_and_flip(w.free_map, 0, cnt, FALSE), LAMBDA sf :
  Let([w EXCEPT !.free_map = sf.b], LAMBDA w1 :
    IF sf.idx = BITMAP_ERROR
    THEN [w |-> w1, v |-> FALSE, sectorp |-> sectorp]
    ELSE IF w.free_map_file = NULL
    THEN [w |-> Returned(w1, cnt, sf.idx), v |-> TRUE,
          sectorp |-> sf.idx]
    ELSE
    Let(bitmap_write(w1), LAMBDA wr :
      [w |-> IF wr.v THEN Returned(wr.w, cnt, sf.idx) ELSE wr.w, v |-> wr.v,
       sectorp |-> IF wr.v THEN sf.idx ELSE sectorp])))

\* free_map_allocate that starts its scan two sectors before the end.
free_map_allocate_scan_high(w, cnt, sectorp) ==
  IF w.panic # "" THEN [w |-> w, v |-> FALSE, sectorp |-> sectorp]
  ELSE
  Let(bitmap_scan_and_flip(w.free_map, NumSectors - 2, cnt, FALSE),
      LAMBDA sf :
  Let([w EXCEPT !.free_map = sf.b], LAMBDA w1 :
    IF sf.idx = BITMAP_ERROR
    THEN [w |-> w1, v |-> FALSE, sectorp |-> sectorp]
    ELSE IF w.free_map_file = NULL
    THEN [w |-> Returned(w1, cnt, sf.idx), v |-> TRUE,
          sectorp |-> sf.idx]
    ELSE
    Let(bitmap_write(w1), LAMBDA wr :
      IF ~wr.v
      THEN [w |-> [wr.w EXCEPT !.free_map =
                     bitmap_set_multiple(@, sf.idx, cnt, FALSE)],
            v |-> FALSE, sectorp |-> sectorp]
      ELSE [w |-> Returned(wr.w, cnt, sf.idx), v |-> TRUE,
            sectorp |-> sf.idx])))

\* bool free_map_allocate (size_t cnt, block_sector_t *sectorp); sectorp is
\* the value *sectorp holds at entry, r.sectorp the value it holds at return.
free_map_allocate(w, cnt, sectorp) ==
  IF w.panic # "" THEN [w |-> w, v |-> FALSE, sectorp |-> sectorp]
  ELSE
  Let(lock_acquire(w), LAMBDA w0 :
  Let(bitmap_scan_and_flip(w0.free_map, 0, cnt, FALSE), LAMBDA sf :
  Let([w0 EXCEPT !.free_map = sf.b], LAMBDA w1 :
    IF w0.panic # "" THEN [w |-> w0, v |-> FALSE, sectorp |-> sectorp]
    ELSE IF sf.idx = BITMAP_ERROR
    THEN [w |-> lock_release(w1), v |-> FALSE, sectorp |-> sectorp]
    ELSE IF w.free_map_file = NULL
    THEN [w |-> Returned(lock_release(w1), cnt, sf.idx), v |-> TRUE,
          sectorp |-> sf.idx]
    ELSE
    Let(bitmap_write(w1), LAMBDA wr :
      IF ~wr.v
      THEN [w |-> lock_release(
                    [wr.w EXCEPT !.free_map =
                       bitmap_set_multiple(@, sf.idx, cnt, FALSE)]),
            v |-> FALSE, sectorp |-> sectorp]
      ELSE [w |-> Returned(lock_release(wr.w), cnt, sf.idx), v |-> TRUE,
            sectorp |-> sf.idx]))))

\* free_map_release that leaves the last bit of the run set.
free_map_release_short(w, sector, cnt) ==
  IF w.panic # "" THEN w
  ELSE IF ~(sector + cnt <= NumSectors /\ sector >= 0)
          \/ ~bitmap_all(w.free_map, sector, cnt)
  THEN PANIC(w, "assertion failed: bitmap_all (free_map, sector, cnt)")
  ELSE bitmap_write([w EXCEPT !.free_map =
                       bitmap_set_multiple(@, sector, cnt - 1, FALSE)]).w

\* free_map_release without its assertion.
free_map_release_unchecked(w, sector, cnt) ==
  IF w.panic # "" THEN w
  ELSE bitmap_write([w EXCEPT !.free_map =
                       bitmap_set_multiple(@, sector, cnt, FALSE)]).w

\* free_map_release that returns without lock_release (&free_map_lock).
free_map_release_holding(w, sector, cnt) ==
  IF w.panic # "" THEN w
  ELSE IF ~(sector + cnt <= NumSectors /\ sector >= 0)
          \/ ~bitmap_all(w.free_map, sector, cnt)
  THEN PANIC(w, "assertion failed: bitmap_all (free_map, sector, cnt)")
  ELSE
  Let(lock_acquire(w), LAMBDA w0 :
    bitmap_write([w0 EXCEPT !.free_map =
                    bitmap_set_multiple(@, sector, cnt, FALSE)]).w)

\* void free_map_release (block_sector_t sector, size_t cnt)
free_map_release(w, sector, cnt) ==
  IF w.panic # "" THEN w
  ELSE IF ~(sector + cnt <= NumSectors /\ sector >= 0)
          \/ ~bitmap_all(w.free_map, sector, cnt)
  THEN PANIC(w, "assertion failed: bitmap_all (free_map, sector, cnt)")
  ELSE
  Let(lock_acquire(w), LAMBDA w0 :
    lock_release(bitmap_write([w0 EXCEPT !.free_map =
                                 bitmap_set_multiple(@, sector, cnt,
                                                     FALSE)]).w))

\* ----------------------------------------------------------- inode layer
\* inode_create that writes the inode's sector before it asks for the data run.
inode_create_write_first(w, sector, length) ==
  IF w.panic # "" THEN [w |-> w, v |-> FALSE]
  ELSE IF ~MallocOk(w) THEN [w |-> MallocStep(w), v |-> FALSE]
  ELSE
  Let(bytes_to_sectors(length), LAMBDA sectors :
  Let(block_write(MallocStep(w), sector,
                  InodeSector(InodeDisk(0, length, FALSE))), LAMBDA w0 :
  Let(free_map_allocate(w0, sectors, 0), LAMBDA a :
    IF ~a.v THEN [w |-> a.w, v |-> FALSE]
    ELSE
    Let(block_write(a.w, sector,
                    InodeSector(InodeDisk(a.sectorp, length, FALSE))),
        LAMBDA w2 :
      [w |-> [w2 EXCEPT !.disk =
                [s \in Sectors |->
                   IF s \in Range(a.sectorp, sectors)
                   THEN DataSector(ZeroBytes) ELSE w2.disk[s]]],
       v |-> TRUE]))))

\* inode_create that leaves the sectors of the data run as it finds them.
inode_create_unzeroed(w, sector, length) ==
  IF w.panic # "" THEN [w |-> w, v |-> FALSE]
  ELSE IF ~MallocOk(w) THEN [w |-> MallocStep(w), v |-> FALSE]
  ELSE
  Let(free_map_allocate(MallocStep(w), bytes_to_sectors(length), 0),
      LAMBDA a :
    IF ~a.v THEN [w |-> a.w, v |-> FALSE]
    ELSE [w |-> block_write(a.w, sector,
                            InodeSector(InodeDisk(a.sectorp, length, FALSE))),
          v |-> TRUE])

\* bool inode_create (block_sector_t sector, off_t length)
inode_create(w, sector, length) ==
  IF w.panic # "" THEN [w |-> w, v |-> FALSE]
  ELSE IF ~MallocOk(w) THEN [w |-> MallocStep(w), v |-> FALSE]
  ELSE
  Let(bytes_to_sectors(length), LAMBDA sectors :
  Let(free_map_allocate(MallocStep(w), sectors, 0), LAMBDA a :
    IF ~a.v THEN [w |-> a.w, v |-> FALSE]
    ELSE
    Let(block_write(a.w, sector,
                    InodeSector(InodeDisk(a.sectorp, length, FALSE))),
        LAMBDA w2 :
      [w |-> [w2 EXCEPT !.disk =
                [s \in Sectors |->
                   IF s \in Range(a.sectorp, sectors)
                   THEN DataSector(ZeroBytes) ELSE w2.disk[s]]],
       v |-> TRUE])))

\* struct inode *inode_reopen (struct inode *inode)
inode_reopen(w, p) ==
  IF p = NULL \/ w.panic # "" THEN w
  ELSE IF ~Live(w, p) THEN PANIC(w, "inode_reopen: freed inode")
  ELSE [w EXCEPT !.open_inodes[Idx(w, p)].open_cnt = @ + 1]

\* malloc (sizeof *inode): the address of the new object.  Which free address
\* malloc picks is immaterial; the model takes one fixed by the sector.
FreshPtr(w, sector) ==
  IF ~Live(w, sector + 1) THEN sector + 1
  ELSE CHOOSE p \in (NumSectors + 1) .. (NumSectors + Len(w.open_inodes) + 1) :
         ~Live(w, p)

\* inode_open that never looks for a resident inode.
inode_open_always_new(w, sector) ==
  IF w.panic # "" THEN [w |-> w, v |-> NULL]
  ELSE IF ~MallocOk(w) THEN [w |-> MallocStep(w), v |-> NULL]
  ELSE [w |-> [MallocStep(w) EXCEPT !.open_inodes =
                 <<Inode(FreshPtr(w, sector), sector,
                         AsInode(w.disk[sector]))>> \o @],
        v |-> FreshPtr(w, sector)]

\* struct inode *inode_open (block_sector_t sector)
inode_open(w, sector) ==
  LET hits == {i \in 1 .. Len(w.open_inodes) :
                 w.open_inodes[i].sector = sector}
      first == CHOOSE i \in hits : \A j \in hits : i <= j
      w1 == MallocStep(w)
      p == FreshPtr(w, sector)
  IN  IF w.panic # "" THEN [w |-> w, v |-> NULL]
      ELSE IF hits # {}
      THEN [w |-> inode_reopen(w, w.open_inodes[first].ptr),
            v |-> w.open_inodes[first].ptr]
      ELSE IF ~MallocOk(w) THEN [w |-> w1, v |-> NULL]
      ELSE [w |-> [w1 EXCEPT !.open_inodes =
                     <<Inode(p, sector, AsInode(w.disk[sector]))>> \o @],
            v |-> p]

\* inode_close that gives back the sectors of a removed inode on every close,
\* other openers or not.
inode_close_early_release(w, p) ==
  LET ino == Ino(w, p)
      w1 == IF ino.open_cnt - 1 = 0
            THEN [w EXCEPT !.open_inodes = RemoveAt(@, Idx(w, p))]
            ELSE [w EXCEPT !.open_inodes[Idx(w, p)].open_cnt = @ - 1]
  IN  IF p = NULL \/ w.panic # "" THEN w
      ELSE IF ~Live(w, p) THEN PANIC(w, "inode_close: freed inode")
      ELSE IF ino.removed
      THEN free_map_release(free_map_release(w1, ino.sector, 1),
                            ino.data.start,
                            bytes_to_sectors(ino.data.length))
      ELSE w1

\* void inode_close (struct inode *inode)
inode_close(w, p) ==
  LET ino == Ino(w, p)
      w1 == [w EXCEPT !.open_inodes = RemoveAt(@, Idx(w, p))]
      w2 == free_map_release(w1, ino.sector, 1)
      w3 == free_map_release(w2, ino.data.start,
                             bytes_to_sectors(ino.data.length))
  IN  IF p = NULL \/ w.panic # "" THEN w
      ELSE IF ~Live(w, p) THEN PANIC(w, "inode_close: freed inode")
      ELSE IF ino.open_cnt - 1 = 0
      THEN (IF ino.removed THEN w3 ELSE w1)
      ELSE [w EXCEPT !.open_inodes[Idx(w, p)].open_cnt = @ - 1]

\* inode_remove that gives the sectors back at once.
inode_remove_at_once(w, p) ==
  IF w.panic # "" THEN w
  ELSE IF ~Live(w, p) THEN PANIC(w, "inode_remove: bad inode")
  ELSE free_map_release(
         free_map_release(
           [w EXCEPT !.open_inodes[Idx(w, p)].removed = TRUE],
           Ino(w, p).sector, 1),
         Ino(w, p).data.start, bytes_to_sectors(Ino(w, p).data.length))

\* void inode_remove (struct inode *inode)
inode_remove(w, p) ==
  IF w.panic # "" THEN w
  ELSE IF ~Live(w, p) THEN PANIC(w, "inode_remove: bad inode")
  ELSE [w EXCEPT !.open_inodes[Idx(w, p)].removed = TRUE]

inode_is_removed(w, p) == Ino(w, p).removed

Min(a, b) == IF a < b THEN a ELSE b

\* The loop of inode_read_at; out is the part of the buffer filled so far and
\* bounce tells whether the bounce buffer has been allocated.
RECURSIVE read_loop(_, _, _, _, _, _)
read_loop(w, ino, size, offset, out, bounce) ==
  LET sector_idx == byte_to_sector(ino, offset)
      sector_ofs == offset % BLOCK_SECTOR_SIZE
      inode_left == inode_length(ino) - offset
      sector_left == BLOCK_SECTOR_SIZE - sector_ofs
      min_left == Min(inode_left, sector_left)
      chunk_size == Min(size, min_left)
      sec == AsBytes(w.disk[sector_idx])
      direct == sector_ofs = 0 /\ chunk_size = BLOCK_SECTOR_SIZE
      w1 == IF direct \/ bounce THEN w ELSE MallocStep(w)
  IN  IF size <= 0 \/ chunk_size <= 0 THEN [w |-> w, buf |-> out]
      ELSE IF sector_idx \notin Sectors
      THEN [w |-> PANIC(w, "block_read: bad sector"), buf |-> out]
      ELSE IF ~direct /\ ~bounce /\ ~MallocOk(w) THEN [w |-> w1, buf |-> out]
      ELSE read_loop(w1, ino, size - chunk_size, offset + chunk_size,
                     out \o SubSeq(sec, sector_ofs + 1,
                                   sector_ofs + chunk_size),
                     bounce \/ ~direct)

\* off_t inode_read_at (inode, buffer, size, offset): v is the count returned,
\* buf the bytes stored into the buffer.
inode_read_at(w, p, size, offset) ==
  IF w.panic # "" THEN [w |-> w, v |-> 0, buf |-> << >>]
  ELSE IF ~Live(w, p)
  THEN [w |-> PANIC(w, "inode_read_at: bad inode"), v |-> 0, buf |-> << >>]
  ELSE Let(read_loop(w, Ino(w, p), size, offset, << >>, FALSE), LAMBDA r :
         [w |-> r.w, v |-> Len(r.buf), buf |-> r.buf])

\* Byte i (from 1) of a caller's buffer; past its end lies memory the caller
\* did not set, read as 0.
BufAt(buf, i) == IF i <= Len(buf) THEN buf[i] ELSE 0

\* The loop of inode_write_at; n is bytes_written.
RECURSIVE write_loop(_, _, _, _, _, _, _)
write_loop(w, ino, buffer, size, offset, n, bounce) ==
  LET sector_idx == byte_to_sector(ino, offset)
      sector_ofs == offset % BLOCK_SECTOR_SIZE
      inode_left == inode_length(ino) - offset
      sector_left == BLOCK_SECTOR_SIZE - sector_ofs
      min_left == Min(inode_left, sector_left)
      chunk_size == Min(size, min_left)
      direct == sector_ofs = 0 /\ chunk_size = BLOCK_SECTOR_SIZE
      w1 == IF direct \/ bounce THEN w ELSE MallocStep(w)
      base == IF sector_ofs > 0 \/ chunk_size < sector_left
              THEN AsBytes(w.disk[sector_idx]) ELSE ZeroBytes
      new == [i \in 1 .. BLOCK_SECTOR_SIZE |->
                IF i > sector_ofs /\ i <= sector_ofs + chunk_size
                THEN BufAt(buffer, n + i - sector_ofs) ELSE base[i]]
  IN  IF size <= 0 \/ chunk_size <= 0 THEN [w |-> w, v |-> n]
      ELSE IF sector_idx \notin Sectors
      THEN [w |-> PANIC(w, "block_write: bad sector"), v |-> n]
      ELSE IF ~direct /\ ~bounce /\ ~MallocOk(w) THEN [w |-> w1, v |-> n]
      ELSE write_loop(block_write(w1, sector_idx, DataSector(new)), ino,
                      buffer, size - chunk_size, offset + chunk_size,
                      n + chunk_size, bounce \/ ~direct)

\* The loop of an inode_write_at that fills the bounce buffer with zeros and
\* never reads the sector it is about to overwrite in part.
RECURSIVE write_loop_zero_fill(_, _, _, _, _, _, _)
write_loop_zero_fill(w, ino, buffer, size, offset, n, bounce) ==
  LET sector_idx == byte_to_sector(ino, offset)
      sector_ofs == offset % BLOCK_SECTOR_SIZE
      inode_left == inode_length(ino) - offset
      sector_left == BLOCK_SECTOR_SIZE - sector_ofs
      min_left == Min(inode_left, sector_left)
      chunk_size == Min(size, min_left)
      direct == sector_ofs = 0 /\ chunk_size = BLOCK_SECTOR_SIZE
      w1 == IF direct \/ bounce THEN w ELSE MallocStep(w)
      new == [i \in 1 .. BLOCK_SECTOR_SIZE |->
                IF i > sector_ofs /\ i <= sector_ofs + chunk_size
                THEN BufAt(buffer, n + i - sector_ofs) ELSE 0]
  IN  IF size <= 0 \/ chunk_size <= 0 THEN [w |-> w, v |-> n]
      ELSE IF sector_idx \notin Sectors
      THEN [w |-> PANIC(w, "block_write: bad sector"), v |-> n]
      ELSE IF ~direct /\ ~bounce /\ ~MallocOk(w) THEN [w |-> w1, v |-> n]
      ELSE write_loop_zero_fill(
             block_write(w1, sector_idx, DataSector(new)), ino, buffer,
             size - chunk_size, offset + chunk_size, n + chunk_size,
             bounce \/ ~direct)

\* inode_write_at with that loop.
inode_write_at_zero_fill(w, p, buffer, size, offset) ==
  IF w.panic # "" THEN [w |-> w, v |-> 0]
  ELSE IF ~Live(w, p)
  THEN [w |-> PANIC(w, "inode_write_at: bad inode"), v |-> 0]
  ELSE IF Ino(w, p).deny_write_cnt # 0 THEN [w |-> w, v |-> 0]
  ELSE write_loop_zero_fill(w, Ino(w, p), buffer, size, offset, 0, FALSE)

\* inode_write_at that reports the size it was asked for.
inode_write_at_full_count(w, p, buffer, size, offset) ==
  IF w.panic # "" THEN [w |-> w, v |-> 0]
  ELSE IF ~Live(w, p)
  THEN [w |-> PANIC(w, "inode_write_at: bad inode"), v |-> 0]
  ELSE IF Ino(w, p).deny_write_cnt # 0 THEN [w |-> w, v |-> 0]
  ELSE [w |-> write_loop(w, Ino(w, p), buffer, size, offset, 0, FALSE).w,
        v |-> size]

\* inode_write_at that does not look at deny_write_cnt.
inode_write_at_undenied(w, p, buffer, size, offset) ==
  IF w.panic # "" THEN [w |-> w, v |-> 0]
  ELSE IF ~Live(w, p)
  THEN [w |-> PANIC(w, "inode_write_at: bad inode"), v |-> 0]
  ELSE write_loop(w, Ino(w, p), buffer, size, offset, 0, FALSE)

\* inode_write_at that makes the inode as long as the write reaches, in the
\* cache and in its sector.
inode_write_at_extending(w, p, buffer, size, offset) ==
  IF w.panic # "" THEN [w |-> w, v |-> 0]
  ELSE IF ~Live(w, p)
  THEN [w |-> PANIC(w, "inode_write_at: bad inode"), v |-> 0]
  ELSE IF Ino(w, p).deny_write_cnt # 0 THEN [w |-> w, v |-> 0]
  ELSE
  Let(write_loop(w, Ino(w, p), buffer, size, offset, 0, FALSE), LAMBDA r :
  Let([r.w EXCEPT !.open_inodes[Idx(w, p)].data.length =
                    IF offset + size > @ THEN offset + size ELSE @],
      LAMBDA w2 :
    [w |-> block_write(w2, Ino(w2, p).sector, InodeSector(Ino(w2, p).data)),
     v |-> r.v]))

\* off_t inode_write_at (inode, buffer, size, offset)
inode_write_at(w, p, buffer, size, offset) ==
  IF w.panic # "" THEN [w |-> w, v |-> 0]
  ELSE IF ~Live(w, p)
  THEN [w |-> PANIC(w, "inode_write_at: bad inode"), v |-> 0]
  ELSE IF Ino(w, p).deny_write_cnt # 0 THEN [w |-> w, v |-> 0]
  ELSE write_loop(w, Ino(w, p), buffer, size, offset, 0, FALSE)

\* void inode_deny_write (struct inode *inode)
inode_deny_write(w, p) ==
  IF w.panic # "" THEN w
  ELSE IF ~Live(w, p) THEN PANIC(w, "inode_deny_write: bad inode")
  ELSE IF Ino(w, p).deny_write_cnt + 1 > Ino(w, p).open_cnt
  THEN PANIC([w EXCEPT !.open_inodes[Idx(w, p)].deny_write_cnt = @ + 1],
             "assertion failed: deny_write_cnt <= open_cnt")
  ELSE [w EXCEPT !.open_inodes[Idx(w, p)].deny_write_cnt = @ + 1]

\* void inode_allow_write (struct inode *inode)
inode_allow_write(w, p) ==
  IF w.panic # "" THEN w
  ELSE IF ~Live(w, p) THEN PANIC(w, "inode_allow_write: bad inode")
  ELSE IF ~(Ino(w, p).deny_write_cnt > 0)
  THEN PANIC(w, "assertion failed: deny_write_cnt > 0")
  ELSE IF ~(Ino(w, p).deny_write_cnt <= Ino(w, p).open_cnt)
  THEN PANIC(w, "assertion failed: deny_write_cnt <= open_cnt")
  ELSE [w EXCEPT !.open_inodes[Idx(w, p)].deny_write_cnt = @ - 1]

inode_get_symlink(w, p) == Ino(w, p).data.is_symlink

\* inode_set_symlink that sets the flag of the cached inode and leaves the
\* sector as it is.
inode_set_symlink_cache_only(w, p, is_symlink) ==
  IF w.panic # "" THEN w
  ELSE IF ~Live(w, p) THEN PANIC(w, "inode_set_symlink: bad inode")
  ELSE [w EXCEPT !.open_inodes[Idx(w, p)].data.is_symlink = is_symlink]

\* void inode_set_symlink (struct inode *inode, bool is_symlink)
inode_set_symlink(w, p, is_symlink) ==
  LET w1 == [w EXCEPT !.open_inodes[Idx(w, p)].data.is_symlink = is_symlink]
  IN  IF w.panic # "" THEN w
      ELSE IF ~Live(w, p) THEN PANIC(w, "inode_set_symlink: bad inode")
      ELSE block_write(w1, Ino(w1, p).sector, InodeSector(Ino(w1, p).data))

\* ------------------------------------------------------------ file layer
NoFile == [live |-> FALSE, inode |-> NULL, pos |-> 0, deny_write |-> FALSE]

FreeSlots(w) == {f \in FilePtrs : ~w.files[f].live}

\* file_open that keeps the inode reference when it has no memory.
file_open_keep_inode(w, inode) ==
  LET w1 == MallocStep(w)
      file == IF MallocOk(w) /\ FreeSlots(w) # {}
              THEN CHOOSE f \in FreeSlots(w) : \A g \in FreeSlots(w) : f <= g
              ELSE NULL
  IN  IF w.panic # "" THEN [w |-> w, v |-> NULL]
      ELSE IF inode # NULL /\ file # NULL
      THEN [w |-> [w1 EXCEPT !.files[file] =
                     [live |-> TRUE, inode |-> inode, pos |-> 0,
                      deny_write |-> FALSE]],
            v |-> file]
      ELSE [w |-> w1, v |-> NULL]

\* struct file *file_open (struct inode *inode)
file_open(w, inode) ==
  LET w1 == MallocStep(w)
      file == IF MallocOk(w) /\ FreeSlots(w) # {}
              THEN CHOOSE f \in FreeSlots(w) : \A g \in FreeSlots(w) : f <= g
              ELSE NULL
  IN  IF w.panic # "" THEN [w |-> w, v |-> NULL]
      ELSE IF inode # NULL /\ file # NULL
      THEN [w |-> [w1 EXCEPT !.files[file] =
                     [live |-> TRUE, inode |-> inode, pos |-> 0,
                      deny_write |-> FALSE]],
            v |-> file]
      ELSE [w |-> inode_close(w1, inode), v |-> NULL]

\* file_reopen whose new handle starts at the position of the old one.
file_reopen_same_pos(w, file) ==
  Let(file_open(inode_reopen(w, w.files[file].inode), w.files[file].inode),
      LAMBDA r :
    IF r.v = NULL THEN r
    ELSE [w |-> [r.w EXCEPT !.files[r.v].pos = w.files[file].pos],
          v |-> r.v])

\* struct file *file_reopen (struct file *file)
file_reopen(w, file) ==
  file_open(inode_reopen(w, w.files[file].inode), w.files[file].inode)

\* file_allow_write that clears the handle's flag and leaves the inode alone.
file_allow_write_flag_only(w, file) ==
  IF w.panic = "" /\ w.files[file].deny_write
  THEN [w EXCEPT !.files[file].deny_write = FALSE]
  ELSE w

\* void file_allow_write (struct file *file)
file_allow_write(w, file) ==
  IF w.panic = "" /\ w.files[file].deny_write
  THEN inode_allow_write([w EXCEPT !.files[file].deny_write = FALSE],
                         w.files[file].inode)
  ELSE w

\* file_deny_write that does not look at the handle's flag.
file_deny_write_unflagged(w, file) ==
  IF w.panic = ""
  THEN inode_deny_write([w EXCEPT !.files[file].deny_write = TRUE],
                        w.files[file].inode)
  ELSE w

\* void file_deny_write (struct file *file)
file_deny_write(w, file) ==
  IF w.panic = "" /\ ~w.files[file].deny_write
  THEN inode_deny_write([w EXCEPT !.files[file].deny_write = TRUE],
                        w.files[file].inode)
  ELSE w

\* file_close that does not give back the handle's write-deny.
file_close_keep_deny(w, file) ==
  IF file = NULL \/ w.panic # "" THEN w
  ELSE IF ~w.files[file].live THEN PANIC(w, "file_close: freed file")
  ELSE
  Let(inode_close(w, w.files[file].inode), LAMBDA w2 :
    IF w2.panic # "" THEN w2 ELSE [w2 EXCEPT !.files[file] = NoFile])

\* void file_close (struct file *file)
file_close(w, file) ==
  IF file = NULL \/ w.panic # "" THEN w
  ELSE IF ~w.files[file].live THEN PANIC(w, "file_close: freed file")
  ELSE
  Let(inode_close(file_allow_write(w, file), w.files[file].inode), LAMBDA w2 :
    IF w2.panic # "" THEN w2 ELSE [w2 EXCEPT !.files[file] = NoFile])

\* file_read that moves the position by the size asked for.
file_read_advance_size(w, file, size) ==
  Let(inode_read_at(w, w.files[file].inode, size, w.files[file].pos),
      LAMBDA r :
    [w |-> IF r.w.panic # "" THEN r.w
           ELSE [r.w EXCEPT !.files[file].pos = @ + size],
     v |-> r.v, buf |-> r.buf])

\* off_t file_read (struct file *file, void *buffer, off_t size)
file_read(w, file, size) ==
  Let(inode_read_at(w, w.files[file].inode, size, w.files[file].pos),
      LAMBDA r :
    [w |-> IF r.w.panic # "" THEN r.w
           ELSE [r.w EXCEPT !.files[file].pos = @ + r.v],
     v |-> r.v, buf |-> r.buf])

\* off_t file_write (struct file *file, const void *buffer, off_t size)
file_write(w, file, buffer, size) ==
  Let(inode_write_at(w, w.files[file].inode, buffer, size, w.files[file].pos),
      LAMBDA r :
    [w |-> IF r.w.panic # "" THEN r.w
           ELSE [r.w EXCEPT !.files[file].pos = @ + r.v],
     v |-> r.v])

\* off_t file_read_at (file, buffer, size, file_ofs)
file_read_at(w, file, size, file_ofs) ==
  inode_read_at(w, w.files[file].inode, size, file_ofs)

\* off_t file_write_at (file, buffer, size, file_ofs)
file_write_at(w, file, buffer, size, file_ofs) ==
  inode_write_at(w, w.files[file].inode, buffer, size, file_ofs)

\* off_t file_length (struct file *file)
file_length(w, file) == inode_length(Ino(w, w.files[file].inode))

\* void file_seek (struct file *file, off_t new_pos)
file_seek(w, file, new_pos) ==
  IF w.panic # "" THEN w
  ELSE IF ~(new_pos >= 0) THEN PANIC(w, "assertion failed: new_pos >= 0")
  ELSE [w EXCEPT !.files[file].pos = new_pos]

\* off_t file_tell (struct file *file)
file_tell(w, file) == w.files[file].pos

\* ------------------------------------------------ directory (external module)
\* A struct dir is identified with the inode reference it holds.
\* dir_open_path (directory): only the root directory exists.
dir_open_path(w) ==
  IF w.panic # "" THEN [w |-> w, v |-> NULL]
  ELSE
  Let(inode_open(w, ROOT_DIR_SECTOR), LAMBDA o :
    IF o.v # NULL /\ MallocOk(o.w) THEN [w |-> MallocStep(o.w), v |-> o.v]
    ELSE [w |-> inode_close(MallocStep(o.w), o.v), v |-> NULL])

dir_close(w, d) == inode_close(w, d)

HasEntry(w, name) == name \in Names /\ w.dir[name] # -1

\* dir_lookup (dir, name, &inode): v is the inode stored through the pointer.
dir_lookup(w, d, name) ==
  IF w.panic = "" /\ HasEntry(w, name) THEN inode_open(w, w.dir[name])
  ELSE [w |-> w, v |-> NULL]

\* dir_add (dir, name, inode_sector)
dir_add(w, d, name, inode_sector) ==
  IF w.panic = "" /\ name \in Names /\ ~HasEntry(w, name)
  THEN [w |-> [w EXCEPT !.dir[name] = inode_sector], v |-> TRUE]
  ELSE [w |-> w, v |-> FALSE]

\* dir_remove (dir, name): erases the entry, marks the inode removed and
\* closes it.
dir_remove(w, d, name) ==
  IF w.panic # "" \/ ~HasEntry(w, name) THEN [w |-> w, v |-> FALSE]
  ELSE
  Let(inode_open(w, w.dir[name]), LAMBDA o :
    IF o.v = NULL THEN [w |-> o.w, v |-> FALSE]
    ELSE [w |-> inode_close(
                  inode_remove([o.w EXCEPT !.dir[name] = -1], o.v), o.v),
          v |-> TRUE])

\* ------------------------------------------------------------- filesys
\* The C string held in a char array: the bytes before the first NUL.  The
\* array is NAME_MAX + 1 bytes and the names are at most NAME_MAX long: an
\* array that a name fills has its NUL right behind it.
CStr(arr) ==
  LET nul == {i \in 1 .. Len(arr) : arr[i] = 0}
      end == CHOOSE i \in nul : \A j \in nul : i <= j
  IN  IF nul = {} THEN arr ELSE SubSeq(arr, 1, end - 1)

\* filesys_create that takes two sectors for the inode.
filesys_create_spare(w, name, initial_size) ==
  Let(dir_open_path(w), LAMBDA d :
  Let(IF d.v # NULL THEN free_map_allocate(d.w, 2, 0)
      ELSE [w |-> d.w, v |-> FALSE, sectorp |-> 0], LAMBDA a :
  Let(IF a.v THEN inode_create(a.w, a.sectorp, initial_size)
      ELSE [w |-> a.w, v |-> FALSE], LAMBDA c :
  Let(IF c.v THEN dir_add(c.w, d.v, name, a.sectorp)
      ELSE [w |-> c.w, v |-> FALSE], LAMBDA success :
  Let(IF ~success.v /\ a.sectorp # 0
      THEN free_map_release(success.w, a.sectorp, 1) ELSE success.w,
      LAMBDA w1 :
    [w |-> dir_close(w1, d.v), v |-> success.v])))))

\* bool filesys_create (const char *name, off_t initial_size, bool is_dir)
filesys_create(w, name, initial_size) ==
  Let(dir_open_path(w), LAMBDA d :
  Let(IF d.v # NULL THEN free_map_allocate(d.w, 1, 0)
      ELSE [w |-> d.w, v |-> FALSE, sectorp |-> 0], LAMBDA a :
  Let(IF a.v THEN inode_create(a.w, a.sectorp, initial_size)
      ELSE [w |-> a.w, v |-> FALSE], LAMBDA c :
  Let(IF c.v THEN dir_add(c.w, d.v, name, a.sectorp)
      ELSE [w |-> c.w, v |-> FALSE], LAMBDA success :
  Let(IF ~success.v /\ a.sectorp # 0
      THEN free_map_release(success.w, a.sectorp, 1) ELSE success.w,
      LAMBDA w1 :
    [w |-> dir_close(w1, d.v), v |-> success.v])))))

\* filesys_open that gives up with NULL once it has followed more links than
\* there are names.
RECURSIVE filesys_open_guarded(_, _, _)
filesys_open_guarded(w, name, depth) ==
  IF w.panic # "" \/ Len(name) = 0 THEN [w |-> w, v |-> NULL]
  ELSE
  Let(dir_open_path(w), LAMBDA d :
    IF d.v = NULL THEN [w |-> d.w, v |-> NULL]
    ELSE
    Let(dir_lookup(d.w, d.v, name), LAMBDA l :
    Let(dir_close(l.w, d.v), LAMBDA w1 :
    Let(l.v, LAMBDA inode :
      IF inode = NULL \/ w1.panic # "" THEN [w |-> w1, v |-> NULL]
      ELSE IF inode_is_removed(w1, inode) THEN [w |-> w1, v |-> NULL]
      ELSE IF inode_get_symlink(w1, inode)
      THEN Let(inode_read_at(w1, inode, LINK_SIZE, 0), LAMBDA r :
             IF depth > Cardinality(Names)
             THEN [w |-> r.w, v |-> NULL]
             ELSE filesys_open_guarded(
                    r.w,
                    CStr([i \in 1 .. LINK_SIZE |->
                            IF i <= r.v THEN r.buf[i] ELSE w.junk]),
                    depth + 1))
      ELSE file_open(w1, inode)))))

\* struct file *filesys_open (const char *name); depth counts the nested calls.
RECURSIVE filesys_open(_, _, _)
filesys_open(w, name, depth) ==
  IF w.panic # "" \/ Len(name) = 0 THEN [w |-> w, v |-> NULL]
  ELSE
  Let(dir_open_path(w), LAMBDA d :
    IF d.v = NULL THEN [w |-> d.w, v |-> NULL]
    ELSE
    Let(dir_lookup(d.w, d.v, name), LAMBDA l :
    Let(dir_close(l.w, d.v), LAMBDA w1 :
    Let(l.v, LAMBDA inode :
      IF inode = NULL \/ w1.panic # "" THEN [w |-> w1, v |-> NULL]
      ELSE IF inode_is_removed(w1, inode) THEN [w |-> w1, v |-> NULL]
      ELSE IF inode_get_symlink(w1, inode)
      THEN Let(inode_read_at(w1, inode, LINK_SIZE, 0), LAMBDA r :
             IF depth > Cardinality(Names) /\ r.w.fail = 0
             THEN [w |-> PANIC(r.w, "filesys_open: unbounded recursion"),
                   v |-> NULL]
             ELSE filesys_open(
                    r.w,
                    CStr([i \in 1 .. LINK_SIZE |->
                            IF i <= r.v THEN r.buf[i] ELSE w.junk]),
                    depth + 1))
      ELSE file_open(w1, inode)))))

\* filesys_remove that leaves the directory as it is and reports what
\* dir_remove would have.
filesys_remove_keep_entry(w, name) ==
  Let(dir_open_path(w), LAMBDA d :
    [w |-> dir_close(d.w, d.v), v |-> d.v # NULL /\ HasEntry(d.w, name)])

\* bool filesys_remove (const char *name)
filesys_remove(w, name) ==
  Let(dir_open_path(w), LAMBDA d :
  Let(IF d.v # NULL THEN dir_remove(d.w, d.v, name)
      ELSE [w |-> d.w, v |-> FALSE], LAMBDA success :
    [w |-> dir_close(success.w, d.v), v |-> success.v]))

\* bool filesys_symlink (char *target, char *linkpath); target is the
\* NUL-terminated string the caller passes.
filesys_symlink(w, target, linkpath) ==
  Let(filesys_create(w, linkpath, LINK_SIZE), LAMBDA success :
    IF success.w.panic # "" THEN success
    ELSE
    Let(filesys_open(success.w, linkpath, 0), LAMBDA symlink :
      IF symlink.w.panic # "" THEN [w |-> symlink.w, v |-> FALSE]
      ELSE IF symlink.v = NULL
      THEN [w |-> PANIC(symlink.w,
                        "filesys_symlink: null pointer dereference"),
            v |-> FALSE]
      ELSE
      Let(symlink.w.files[symlink.v].inode, LAMBDA inode :
      Let(inode_set_symlink(symlink.w, inode, TRUE), LAMBDA w1 :
      Let(inode_write_at(w1, inode, target \o <<0>>, LINK_SIZE, 0),
          LAMBDA wr :
        [w |-> file_close(wr.w, symlink.v), v |-> success.v])))))

\* free_map_create: the free-map file holds the bitmap, less than a sector.
free_map_create(w) ==
  Let(inode_create(w, FREE_MAP_SECTOR, 1), LAMBDA c :
    IF ~c.v THEN PANIC(c.w, "free map creation failed")
    ELSE
    Let(inode_open(lock_acquire(c.w), FREE_MAP_SECTOR), LAMBDA o :
    Let(file_open(o.w, o.v), LAMBDA f :
    Let(lock_release([f.w EXCEPT !.free_map_file = f.v]), LAMBDA w1 :
      IF f.v = NULL THEN PANIC(w1, "can't open free map")
      ELSE Let(bitmap_write(w1), LAMBDA wr :
             IF ~wr.v THEN PANIC(wr.w, "can't write free map")
             ELSE wr.w)))))

\* void free_map_open (void)
free_map_open(w) ==
  IF w.panic # "" THEN w
  ELSE
  Let(inode_open(lock_acquire(w), FREE_MAP_SECTOR), LAMBDA o :
  Let(file_open(o.w, o.v), LAMBDA f :
  Let(lock_release([f.w EXCEPT !.free_map_file = f.v]), LAMBDA w1 :
    IF f.v = NULL THEN PANIC(w1, "can't open free map")
    ELSE Let(bitmap_read(w1), LAMBDA rd :
           IF ~rd.v THEN PANIC(rd.w, "can't read free map")
           ELSE rd.w))))

\* void free_map_close (void)
free_map_close(w) ==
  lock_release(file_close(lock_acquire(w), w.free_map_file))

\* dir_create (ROOT_DIR_SECTOR, 16): the root directory's file, one sector.
dir_create(w, sector) == inode_create(w, sector, 1)

\* static void do_format (void)
do_format(w) ==
  Let(free_map_create(w), LAMBDA w1 :
    IF w1.panic # "" THEN w1
    ELSE Let(dir_create(w1, ROOT_DIR_SECTOR), LAMBDA c :
           IF ~c.v THEN PANIC(c.w, "root directory creation failed")
           ELSE free_map_close(c.w)))

\* void filesys_init (bool format), after inode_init and free_map_init.
filesys_init(w) == free_map_open(do_format(w))

\* ------------------------------------------------------- state machine
Call(op, ret) == [op |-> op, ret |-> ret]

\* A thread that is in no call and has no file open.
Idle == [pc |-> "idle", fd_table |-> [fd \in Slots |-> NULL], calls |-> 0]

\* lock_init (&free_map_lock), sema_init (&filesys_mutex, 1), and no thread
\* in the file system yet.
NoThreads ==
  /\ free_map_lock = NULL
  /\ filesys_mutex = 1
  /\ thread = [t \in Threads |-> Idle]

Init ==
  /\ Holds(free_map_init(Blank))
  /\ NoThreads
  /\ last = Call("free_map_init", 0)

Running == panic = "" /\ free_map_file # NULL

\* The handles callers hold: every struct file but the free-map file.
UserFiles == {f \in FilePtrs : files[f].live /\ f # free_map_file}

\* No reference count is at the cap.
BelowCap ==
  \A i \in 1 .. Len(open_inodes) : open_inodes[i].open_cnt < MaxOpenCnt

FilesysInit(fail) ==
  /\ panic = "" /\ free_map_file = NULL
  /\ Commit(filesys_init(W(fail)))
  /\ last' = Call("filesys_init", 0)

FilesysCreate(name, size, fail) ==
  /\ Running
  /\ \E r \in {filesys_create(W(fail), name, size)} :
       /\ Commit(r.w)
       /\ last' = [op |-> "filesys_create", ret |-> r.v,
                   allocs |-> r.w.allocs]

FilesysOpen(name, fail, junk) ==
  /\ Running /\ BelowCap
  /\ \E r \in {filesys_open([W(fail) EXCEPT !.junk = junk], name, 0)} :
       Commit(r.w) /\ last' = Call("filesys_open", r.v)

FilesysRemove(name, fail) ==
  /\ Running
  /\ \E r \in {filesys_remove(W(fail), name)} :
       /\ Commit(r.w)
       /\ last' = [op |-> "filesys_remove", ret |-> r.v, name |-> name]

FilesysSymlink(target, linkpath, fail, junk) ==
  /\ Running /\ BelowCap
  /\ \E r \in {filesys_symlink([W(fail) EXCEPT !.junk = junk], target,
                                linkpath)} :
       /\ Commit(r.w)
       /\ last' = [op |-> "filesys_symlink", ret |-> r.v,
                   allocs |-> r.w.allocs, target |-> target,
                   linkpath |-> linkpath]

FileReopen(file, fail) ==
  /\ Running /\ BelowCap /\ file \in UserFiles
  /\ \E r \in {file_reopen(W(fail), file)} :
       Commit(r.w) /\ last' = Call("file_reopen", r.v)

FileClose(file, fail) ==
  /\ Running /\ file \in UserFiles
  /\ \E w2 \in {file_close(W(fail), file)} :
       /\ Commit(w2)
       /\ last' = [op |-> "file_close", file |-> file,
                   inode |-> files[file].inode,
                   released |-> w2.free_map # free_map,
                   denied |-> files[file].deny_write]

FileReadAt(file, size, ofs, fail) ==
  /\ Running /\ file \in UserFiles
  /\ \E r \in {file_read_at(W(fail), file, size, ofs)} :
       /\ Commit(r.w)
       /\ last' = [op |-> "file_read_at", file |-> file, ret |-> r.v]

FileWriteAt(file, byte, size, ofs, fail) ==
  /\ Running /\ file \in UserFiles
  /\ \E r \in {file_write_at(W(fail), file, [i \in 1 .. size |-> byte], size,
                            ofs)} :
       /\ Commit(r.w)
       /\ last' = [op |-> "file_write_at", file |-> file, ret |-> r.v]

\* The file system with allocation failures: every call may have one of its
\* mallocs fail.
Next ==
  \/ \E fail \in 0 .. 1 : FilesysInit(fail)
  \/ \E name \in Names, size \in CreateSizes, fail \in 0 .. 6 :
       FilesysCreate(name, size, fail)
  \/ \E name \in Names, fail \in 0 .. 4 : FilesysOpen(name, fail, 0)
  \/ \E name \in Names, fail \in 0 .. 5 : FilesysRemove(name, fail)
  \/ \E file \in FilePtrs, fail \in 0 .. 1 : FileReopen(file, fail)
  \/ \E file \in FilePtrs, fail \in 0 .. 2 : FileClose(file, fail)

Spec == Init /\ [][Next]_vars

\* ------------------------------------------------ one file, read and written
NextIO ==
  \/ FilesysInit(0)
  \/ \E size \in Sizes : FilesysCreate(<<1>>, size, 0)
  \/ FilesysOpen(<<1>>, 0, 0)
  \/ FilesysRemove(<<1>>, 0)
  \/ \E file \in FilePtrs : FileClose(file, 0)
  \/ \E file \in FilePtrs, size \in Sizes, ofs \in Sizes, fail \in 0 .. 1 :
       FileReadAt(file, size, ofs, fail)
  \/ \E file \in FilePtrs, byte \in {1}, size \in Sizes, ofs \in Sizes,
        fail \in 0 .. 1 :
       FileWriteAt(file, byte, size, ofs, fail)

SpecIO == Init /\ [][NextIO]_vars

\* ------------------------------------------------- handles on one file
FileDenyWrite(file) ==
  /\ Running /\ file \in UserFiles
  /\ Commit(file_deny_write(W(0), file))
  /\ last' = [op |-> "file_deny_write", file |-> file,
              was |-> files[file].deny_write]

FileAllowWrite(file) ==
  /\ Running /\ file \in UserFiles
  /\ Commit(file_allow_write(W(0), file))
  /\ last' = [op |-> "file_allow_write", file |-> file,
              was |-> files[file].deny_write]

FileRead(file, size, fail) ==
  /\ Running /\ file \in UserFiles
  /\ \E r \in {file_read(W(fail), file, size)} :
       /\ Commit(r.w)
       /\ last' = [op |-> "file_read", file |-> file, size |-> size,
                   ret |-> r.v]

FileWrite(file, byte, size, fail) ==
  /\ Running /\ file \in UserFiles
  /\ \E r \in {file_write(W(fail), file, [i \in 1 .. size |-> byte], size)} :
       /\ Commit(r.w)
       /\ last' = [op |-> "file_write", file |-> file, size |-> size,
                   ret |-> r.v]

FileSeek(file, new_pos) ==
  /\ Running /\ file \in UserFiles
  /\ Commit(file_seek(W(0), file, new_pos))
  /\ last' = [op |-> "file_seek", file |-> file, new_pos |-> new_pos]

FileTell(file) ==
  /\ Running /\ file \in UserFiles
  /\ Commit(W(0))
  /\ last' = [op |-> "file_tell", file |-> file,
              ret |-> file_tell(W(0), file)]

\* One file of a sector and a half, its handles opened, reopened, write-denied,
\* read, written, moved and closed.
NextFile ==
  \/ FilesysInit(0)
  \/ FilesysCreate(<<1>>, BLOCK_SECTOR_SIZE + 1, 0)
  \/ \E fail \in 0 .. 4 : FilesysOpen(<<1>>, fail, 0)
  \/ \E file \in FilePtrs, fail \in 0 .. 1 : FileReopen(file, fail)
  \/ \E file \in FilePtrs : FileClose(file, 0)
  \/ \E file \in FilePtrs : FileDenyWrite(file)
  \/ \E file \in FilePtrs : FileAllowWrite(file)
  \/ \E file \in FilePtrs, size \in Sizes, fail \in 0 .. 1 :
       FileRead(file, size, fail)
  \/ \E file \in FilePtrs, size \in Sizes, fail \in 0 .. 1 :
       FileWrite(file, 1, size, fail)
  \/ \E file \in FilePtrs, new_pos \in Offsets : FileSeek(file, new_pos)
  \/ \E file \in FilePtrs : FileTell(file)

SpecFile == Init /\ [][NextFile]_vars

\* ------------------------------------------- files and symbolic links
NextLink ==
  \/ FilesysInit(0)
  \/ \E size \in LinkSizes : FilesysCreate(<<1>>, size, 0)
  \/ \E name \in Names, fail \in 0 .. 8, junk \in 0 .. 2 :
       FilesysOpen(name, fail, junk)
  \/ \E name \in Names : FilesysRemove(name, 0)
  \/ \E target \in Names, fail \in 0 .. 10 :
       FilesysSymlink(target, <<2>>, fail, 0)
  \/ \E file \in FilePtrs : FileClose(file, 0)
  \/ \E file \in FilePtrs : FileWriteAt(file, 1, 1, 0, 0)

SpecLink == Init /\ [][NextLink]_vars

\* ------------------------------------------------- the allocator alone
\* The free map as the file system leaves it mounted, driven call by call.
Mounted == filesys_init(free_map_init(Blank))

InitFM ==
  /\ Holds(Mounted)
  /\ NoThreads
  /\ last = Call("filesys_init", 0)

\* Sectors of the free-map file and of the root directory: no caller owns
\* them, so no caller releases them.
Reserved ==
  {FREE_MAP_SECTOR, ROOT_DIR_SECTOR}
    \cup {Mounted.disk[FREE_MAP_SECTOR].v.start,
          Mounted.disk[ROOT_DIR_SECTOR].v.start}

\* What *sectorp holds before the call: no sector number.
Unwritten == NumSectors

FreeMapAllocate(cnt, fail) ==
  /\ Running
  /\ \E r \in {free_map_allocate(W(fail), cnt, Unwritten)} :
       /\ Commit(r.w)
       /\ last' = [op |-> "free_map_allocate", cnt |-> cnt, fail |-> fail,
                   ret |-> r.v, sectorp |-> r.sectorp, before |-> free_map]

\* A caller releases a run it was given, or, wrongly, one that is not wholly
\* allocated.  from is the bitmap before the allocation that this call undoes.
FreeMapRelease(sector, cnt, fail) ==
  /\ Running
  /\ \A i \in sector .. sector + cnt - 1 : i \in Sectors \ Reserved
  /\ Commit(free_map_release(W(fail), sector, cnt))
  /\ last' = [op |-> "free_map_release", sector |-> sector, cnt |-> cnt,
              fail |-> fail, before |-> free_map,
              undoes |-> /\ last.op = "free_map_allocate"
                         /\ last.ret
                         /\ last.sectorp = sector
                         /\ last.cnt = cnt,
              from |-> IF last.op = "free_map_allocate"
                       THEN last.before ELSE free_map]

NextFM ==
  \/ \E cnt \in 0 .. MaxCnt, fail \in 0 .. 1 : FreeMapAllocate(cnt, fail)
  \/ \E sector \in Sectors, cnt \in 0 .. MaxCnt, fail \in 0 .. 1 :
       FreeMapRelease(sector, cnt, fail)

SpecFM == InitFM /\ [][NextFM]_vars

\* ------------------------------------- the allocator, thread against thread
\* free_map_allocate and free_map_release statement by statement: a timer
\* interrupt may switch threads between any two of them, and the bitmap
\* functions set and test one bit at a time.  Each thread makes one call in a
\* round; a round ends when every call made in it has returned.
InCall(t) == thread[t].pc \notin {"idle", "done"}

\* The bitmap and the disk that the calls of this round started from.
RoundStart ==
  IF \E u \in Threads : thread[u].pc # "idle"
  THEN thread[CHOOSE u \in Threads : thread[u].pc # "idle"].before
  ELSE [free_map |-> free_map, disk |-> disk]

\* The thread goes on to pc with its locals changed.
Goto(t, pc, sector, i) ==
  thread' = [thread EXCEPT ![t].pc = pc, ![t].sector = sector, ![t].i = i]

\* Thread t enters free_map_allocate (cnt, &sector).
AllocateCall(t, cnt, fail) ==
  /\ Running /\ thread[t].pc = "idle"
  /\ thread' = [thread EXCEPT ![t] =
                  [pc |-> "lock_acquire", op |-> "free_map_allocate",
                   cnt |-> cnt, fail |-> fail, arg |-> Unwritten,
                   sector |-> BITMAP_ERROR, i |-> 0, torn |-> FALSE,
                   before |-> RoundStart]]
  /\ UNCHANGED <<free_map, free_map_file, disk, open_inodes, files, dir,
                 panic, last, free_map_lock, filesys_mutex>>

\* Thread t enters free_map_release (sector, cnt).
ReleaseCall(t, sector, cnt, fail) ==
  /\ Running /\ thread[t].pc = "idle"
  /\ \A i \in sector .. sector + cnt - 1 : i \in Sectors \ Reserved
  /\ thread' = [thread EXCEPT ![t] =
                  [pc |-> "assert", op |-> "free_map_release",
                   cnt |-> cnt, fail |-> fail, arg |-> sector,
                   sector |-> sector, i |-> 0, torn |-> FALSE,
                   before |-> RoundStart]]
  /\ UNCHANGED <<free_map, free_map_file, disk, open_inodes, files, dir,
                 panic, last, free_map_lock, filesys_mutex>>

\* Sector s is in the run of another thread that is inside its locked
\* section with the run flipped in part, or flipped and to be rolled back
\* because the write that follows fails.
Torn(t, s) ==
  \E u \in Threads \ {t} :
    /\ free_map_lock = u
    /\ \/ thread[u].pc \in {"flip", "reset"} /\ thread[u].i > 0
       \/ thread[u].pc = "rollback"
       \/ /\ thread[u].pc = "bitmap_write"
          /\ thread[u].op = "free_map_allocate"
          /\ ~bitmap_write(W(thread[u].fail)).v
    /\ s \in Range(thread[u].sector, thread[u].cnt)

\* ASSERT (bitmap_all (free_map, sector, cnt)): one bitmap_test.
AssertBit(t) ==
  /\ Running /\ thread[t].pc = "assert"
  /\ LET c == thread[t]
         s == c.sector + c.i
     IN  IF c.i >= c.cnt
         THEN /\ Goto(t, "lock_acquire", c.sector, 0)
              /\ UNCHANGED panic
         ELSE IF free_map[s]
         THEN /\ thread' = [thread EXCEPT ![t].i = @ + 1,
                                          ![t].torn = @ \/ Torn(t, s)]
              /\ UNCHANGED panic
         ELSE /\ thread' = [thread EXCEPT ![t].pc = "panic",
                                          ![t].torn = @ \/ Torn(t, s)]
              /\ panic' =
                   "assertion failed: bitmap_all (free_map, sector, cnt)"
  /\ UNCHANGED <<free_map, free_map_file, disk, open_inodes, files, dir,
                 last, free_map_lock, filesys_mutex>>

\* lock_acquire (&free_map_lock): the thread waits while another holds it.
LockAcquire(t) ==
  /\ Running /\ thread[t].pc = "lock_acquire" /\ free_map_lock = NULL
  /\ free_map_lock' = t
  /\ Goto(t, IF thread[t].op = "free_map_allocate" THEN "scan" ELSE "reset",
          thread[t].sector, 0)
  /\ UNCHANGED <<free_map, free_map_file, disk, open_inodes, files, dir,
                 panic, last, filesys_mutex>>

\* Where free_map_allocate goes once the run is flipped.
Flipped == IF free_map_file # NULL THEN "bitmap_write" ELSE "lock_release"

\* bitmap_scan_and_flip, the scan: the first run of cnt clear bits.
Scan(t) ==
  /\ Running /\ thread[t].pc = "scan"
  /\ LET sector == bitmap_scan(free_map, 0, thread[t].cnt, FALSE)
     IN  Goto(t, IF sector = BITMAP_ERROR THEN "lock_release"
                 ELSE IF thread[t].cnt = 0 THEN Flipped ELSE "flip",
              sector, 0)
  /\ UNCHANGED <<free_map, free_map_file, disk, open_inodes, files, dir,
                 panic, last, free_map_lock, filesys_mutex>>

\* bitmap_scan_and_flip, the flip: bitmap_set_multiple marks one bit.
Flip(t) ==
  /\ Running /\ thread[t].pc = "flip"
  /\ LET c == thread[t]
     IN  /\ free_map' = [free_map EXCEPT ![c.sector + c.i] = TRUE]
         /\ Goto(t, IF c.i + 1 = c.cnt THEN Flipped ELSE "flip", c.sector,
                 c.i + 1)
  /\ UNCHANGED <<free_map_file, disk, open_inodes, files, dir, panic, last,
                 free_map_lock, filesys_mutex>>

\* bitmap_write (free_map, free_map_file), in either function.
BitmapWrite(t) ==
  /\ Running /\ thread[t].pc = "bitmap_write"
  /\ \E wr \in {bitmap_write(W(thread[t].fail))} :
       /\ Store(wr.w)
       /\ Goto(t, IF thread[t].op = "free_map_release" \/ wr.v
                  THEN "lock_release"
                  ELSE IF thread[t].cnt = 0 THEN "lock_release"
                  ELSE "rollback",
               IF thread[t].op = "free_map_release" \/ wr.v
               THEN thread[t].sector ELSE
               IF thread[t].cnt = 0 THEN BITMAP_ERROR ELSE thread[t].sector,
               0)
  /\ UNCHANGED <<last, free_map_lock, filesys_mutex>>

\* bitmap_set_multiple (free_map, sector, cnt, false) of free_map_allocate,
\* one bit, and sector = BITMAP_ERROR after the last.
Rollback(t) ==
  /\ Running /\ thread[t].pc = "rollback"
  /\ LET c == thread[t]
     IN  /\ free_map' = [free_map EXCEPT ![c.sector + c.i] = FALSE]
         /\ IF c.i + 1 = c.cnt
            THEN thread' = [thread EXCEPT ![t].pc = "lock_release",
                                          ![t].sector = BITMAP_ERROR]
            ELSE thread' = [thread EXCEPT ![t].i = @ + 1]
  /\ UNCHANGED <<free_map_file, disk, open_inodes, files, dir, panic, last,
                 free_map_lock, filesys_mutex>>

\* bitmap_set_multiple (free_map, sector, cnt, false) of free_map_release,
\* one bit.
Reset(t) ==
  /\ Running /\ thread[t].pc = "reset"
  /\ LET c == thread[t]
     IN  IF c.cnt = 0
         THEN Goto(t, "bitmap_write", c.sector, 0) /\ UNCHANGED free_map
         ELSE /\ free_map' = [free_map EXCEPT ![c.sector + c.i] = FALSE]
              /\ Goto(t, IF c.i + 1 = c.cnt THEN "bitmap_write" ELSE "reset",
                      c.sector, c.i + 1)
  /\ UNCHANGED <<free_map_file, disk, open_inodes, files, dir, panic, last,
                 free_map_lock, filesys_mutex>>

\* lock_release (&free_map_lock)
LockRelease(t) ==
  /\ Running /\ thread[t].pc = "lock_release" /\ free_map_lock = t
  /\ free_map_lock' = NULL
  /\ Goto(t, "return", thread[t].sector, 0)
  /\ UNCHANGED <<free_map, free_map_file, disk, open_inodes, files, dir,
                 panic, last, filesys_mutex>>

\* What the call of thread t hands its caller: the value returned and
\* *sectorp.
Ret(c) ==
  IF c.op = "free_map_allocate"
  THEN [v |-> c.sector # BITMAP_ERROR,
        sectorp |-> IF c.sector # BITMAP_ERROR THEN c.sector ELSE c.arg]
  ELSE [v |-> TRUE, sectorp |-> c.arg]

\* if (sector != BITMAP_ERROR) *sectorp = sector; return.
Return(t) ==
  /\ Running /\ thread[t].pc = "return"
  /\ thread' = [thread EXCEPT ![t].pc = "done"]
  /\ last' = [op |-> thread[t].op, ret |-> Ret(thread[t]).v, thread |-> t]
  /\ UNCHANGED <<free_map, free_map_file, disk, open_inodes, files, dir,
                 panic, free_map_lock, filesys_mutex>>

\* Every call of the round has returned: the threads are free to call again.
NextRound ==
  /\ Running
  /\ \A t \in Threads : ~InCall(t)
  /\ \E t \in Threads : thread[t].pc = "done"
  /\ thread' = [t \in Threads |-> Idle]
  /\ last' = Call("round", 0)
  /\ UNCHANGED <<free_map, free_map_file, disk, open_inodes, files, dir,
                 panic, free_map_lock, filesys_mutex>>

NextLock ==
  \/ \E t \in Threads, cnt \in 0 .. MaxCnt, fail \in 0 .. 1 :
       AllocateCall(t, cnt, fail)
  \/ \E t \in Threads, sector \in Sectors, cnt \in 0 .. MaxCnt,
        fail \in 0 .. 1 :
       ReleaseCall(t, sector, cnt, fail)
  \/ \E t \in Threads : AssertBit(t)
  \/ \E t \in Threads : LockAcquire(t)
  \/ \E t \in Threads : Scan(t)
  \/ \E t \in Threads : Flip(t)
  \/ \E t \in Threads : BitmapWrite(t)
  \/ \E t \in Threads : Rollback(t)
  \/ \E t \in Threads : Reset(t)
  \/ \E t \in Threads : LockRelease(t)
  \/ \E t \in Threads : Return(t)
  \/ NextRound

SpecLock == InitFM /\ [][NextLock]_vars

\* ------------------------------------------------------- the system calls
\* The system calls on files, statement by statement as far as the semaphore
\* is concerned: what comes before sema_down, the call into the file system
\* between sema_down and sema_up, and what comes after.  The pointers passed
\* are valid and the descriptors are in Fds.  A thread makes MaxCalls system
\* calls.
CanCall(t) ==
  Running /\ thread[t].pc = "idle" /\ thread[t].calls < MaxCalls

InSyscall(t, op, a) ==
  [pc |-> "sema_down", fd_table |-> thread[t].fd_table,
   calls |-> thread[t].calls + 1, op |-> op,
   fd |-> a.fd, name |-> a.name, target |-> a.target, size |-> a.size,
   file |-> a.file, ret |-> 0, stage |-> 1]

Args == [fd |-> 0, name |-> <<>>, target |-> <<>>, size |-> 0, file |-> NULL]

\* The thread comes to its return statement with the value it returns.
Returning(t, op, ret) ==
  [pc |-> "return", fd_table |-> thread[t].fd_table,
   calls |-> IF thread[t].pc = "idle" THEN thread[t].calls + 1
             ELSE thread[t].calls,
   op |-> op, ret |-> ret, fd |-> 0, file |-> NULL]

Others ==
  <<free_map, free_map_file, disk, open_inodes, files, dir, panic, last,
    free_map_lock, filesys_mutex>>

\* bool create (const char *file, unsigned initial_size), up to sema_down
Create(t, name, initial_size) ==
  /\ CanCall(t)
  /\ thread' = [thread EXCEPT ![t] =
                  InSyscall(t, "create", [Args EXCEPT !.name = name,
                                                       !.size = initial_size])]
  /\ UNCHANGED Others

\* bool remove (const char *file), up to sema_down
Remove(t, name) ==
  /\ CanCall(t)
  /\ thread' = [thread EXCEPT ![t] =
                  InSyscall(t, "remove", [Args EXCEPT !.name = name])]
  /\ UNCHANGED Others

\* int open (const char *filename), up to sema_down: the first free
\* descriptor from 2 on, -1 when there is none.
Open(t, name) ==
  /\ CanCall(t)
  /\ LET free == {fd \in Fds : thread[t].fd_table[fd] = NULL}
     IN  thread' = [thread EXCEPT ![t] =
           IF free = {} THEN Returning(t, "open", -1)
           ELSE InSyscall(t, "open",
                  [Args EXCEPT !.name = name,
                               !.fd = CHOOSE fd \in free :
                                        \A g \in free : fd <= g])]
  /\ UNCHANGED Others

\* filesize, read, write, seek, tell up to sema_down: the calls return at once
\* on a descriptor with no file, and write on a file that denies writes.
OnFile(t, op, fd, size) ==
  /\ CanCall(t)
  /\ LET file == thread[t].fd_table[fd]
     IN  thread' = [thread EXCEPT ![t] =
           IF file = NULL \/ (op = "write" /\ files[file].deny_write)
           THEN Returning(t, op, 0)
           ELSE InSyscall(t, op, [Args EXCEPT !.fd = fd, !.size = size,
                                              !.file = file])]
  /\ UNCHANGED Others

Filesize(t, fd) == OnFile(t, "filesize", fd, 0)
Read(t, fd, size) == OnFile(t, "read", fd, size)
Write(t, fd, size) == OnFile(t, "write", fd, size)
Seek(t, fd, position) == OnFile(t, "seek", fd, position)
Tell(t, fd) == OnFile(t, "tell", fd, 0)

\* void close (int fd), up to sema_down
Close(t, fd) ==
  /\ CanCall(t)
  /\ thread' = [thread EXCEPT ![t] =
                  InSyscall(t, "close", [Args EXCEPT !.fd = fd])]
  /\ UNCHANGED Others

\* int symlink (char *target, char *linkpath), up to the first sema_down
Symlink(t, target, linkpath) ==
  /\ CanCall(t)
  /\ thread' = [thread EXCEPT ![t] =
                  InSyscall(t, "symlink", [Args EXCEPT !.target = target,
                                                        !.name = linkpath])]
  /\ UNCHANGED Others

\* readdir, isdir and inumber up to sema_down: they return at once on a
\* descriptor below 3.
OnFd(t, op, fd) ==
  /\ CanCall(t)
  /\ thread' = [thread EXCEPT ![t] =
                  IF fd < 3
                  THEN Returning(t, op, IF op = "inumber" THEN -1 ELSE FALSE)
                  ELSE InSyscall(t, op, [Args EXCEPT !.fd = fd])]
  /\ UNCHANGED Others

Readdir(t, fd) == OnFd(t, "readdir", fd)
Isdir(t, fd) == OnFd(t, "isdir", fd)
Inumber(t, fd) == OnFd(t, "inumber", fd)

\* int stat (const char *pathname, void *buf), up to sema_down
Stat(t) ==
  /\ CanCall(t)
  /\ thread' = [thread EXCEPT ![t] = InSyscall(t, "stat", Args)]
  /\ UNCHANGED Others

\* The first descriptor from fd up that holds a file in table fds; 0, the
\* executable's, when there is none: the one exit closes next.
NextOpen(fds, fd) ==
  IF \E g \in Fds : g >= fd /\ fds[g] # NULL
  THEN CHOOSE g \in Fds : /\ g >= fd /\ fds[g] # NULL
                          /\ \A h \in Fds : (h >= fd /\ fds[h] # NULL) => g <= h
  ELSE 0

\* exit, in its loop over the descriptors, about to call close (fd).
Exiting(c, fd) ==
  [pc |-> "sema_down", fd_table |-> c.fd_table, calls |-> c.calls,
   op |-> "exit", fd |-> fd, name |-> <<>>, target |-> <<>>, size |-> 0,
   file |-> NULL, ret |-> 0, stage |-> 1]

\* void exit (int status), up to the sema_down of its first close
Exit(t) ==
  /\ Running /\ thread[t].pc = "idle"
  /\ thread' = [thread EXCEPT ![t] =
                  Exiting(thread[t], NextOpen(thread[t].fd_table, 2))]
  /\ UNCHANGED Others

\* thread_exit () at the end of exit: the thread is gone, its table freed.
Exited(c) == [pc |-> "exited", fd_table |-> c.fd_table, calls |-> c.calls]

\* int symlink (char *target, char *linkpath) with no other thread between
\* its two calls into the file system.
symlink(w, target, linkpath) ==
  Let(filesys_open(w, target, 0), LAMBDA target_file :
    IF target_file.v = NULL THEN [w |-> target_file.w, v |-> -1]
    ELSE Let(filesys_symlink(target_file.w, target, linkpath),
             LAMBDA success :
           [w |-> success.w, v |-> IF success.v THEN 0 ELSE -1]))

\* sema_down that returns at once, whatever the value is.
SemaDownNoWait(t) ==
  /\ Running /\ thread[t].pc = "sema_down"
  /\ thread[t].op \in {"open", "symlink"} => BelowCap
  /\ thread' = [thread EXCEPT ![t].pc = "filesys"]
  /\ UNCHANGED <<free_map, free_map_file, disk, open_inodes, files, dir,
                 panic, last, free_map_lock, filesys_mutex>>

\* sema_down (&filesys_mutex): the thread waits while the value is 0.  A call
\* that opens an inode is not made at the cap of the reference counts.
SemaDown(t) ==
  /\ Running /\ thread[t].pc = "sema_down" /\ filesys_mutex > 0
  /\ thread[t].op \in {"open", "symlink"} => BelowCap
  /\ filesys_mutex' = filesys_mutex - 1
  /\ thread' = [thread EXCEPT ![t].pc = "filesys"]
  /\ UNCHANGED <<free_map, free_map_file, disk, open_inodes, files, dir,
                 panic, last, free_map_lock>>

\* The statements between sema_down and sema_up: r.w is the state they leave,
\* r.v the value they assign, r.fds the descriptor table.
Inside(c) ==
  LET w == W(0)
      same == [w |-> w, v |-> 0, fds |-> c.fd_table]
  IN  CASE c.op = "create" ->
             Let(filesys_create(w, c.name, c.size), LAMBDA r :
               [same EXCEPT !.w = r.w, !.v = r.v])
        [] c.op = "remove" ->
             Let(filesys_remove(w, c.name), LAMBDA r :
               [same EXCEPT !.w = r.w, !.v = r.v])
        [] c.op = "open" ->
             Let(filesys_open(w, c.name, 0), LAMBDA r :
               [same EXCEPT !.w = r.w, !.v = r.v])
        [] c.op = "filesize" -> [same EXCEPT !.v = file_length(w, c.file)]
        [] c.op = "read" ->
             Let(file_read(w, c.file, c.size), LAMBDA r :
               [same EXCEPT !.w = r.w, !.v = r.v])
        [] c.op = "write" ->
             Let(file_write(w, c.file, [i \in 1 .. c.size |-> 1], c.size),
                 LAMBDA r : [same EXCEPT !.w = r.w, !.v = r.v])
        [] c.op = "seek" -> [same EXCEPT !.w = file_seek(w, c.file, c.size)]
        [] c.op = "tell" -> [same EXCEPT !.v = file_tell(w, c.file)]
        [] c.op \in {"close", "exit"} ->
             [same EXCEPT !.w = file_close(w, c.fd_table[c.fd]),
                          !.fds = [c.fd_table EXCEPT ![c.fd] = NULL]]
        [] c.op \in {"readdir", "isdir"} ->
             [same EXCEPT !.v = c.fd_table[c.fd] # NULL]
        [] c.op = "inumber" ->
             [same EXCEPT !.v = IF c.fd_table[c.fd] = NULL THEN -1 ELSE 0]
        [] c.op = "stat" -> [same EXCEPT !.v = -1]
        [] c.op = "symlink" /\ c.stage = 1 ->
             Let(filesys_open(w, c.target, 0), LAMBDA r :
               [same EXCEPT !.w = r.w, !.v = r.v])
        [] c.op = "symlink" /\ c.stage = 2 ->
             Let(filesys_symlink(w, c.target, c.name), LAMBDA r :
               [same EXCEPT !.w = r.w, !.v = r.v])

\* The call into the file system that the thread makes inside its system
\* call.
Filesys(t) ==
  /\ Running /\ thread[t].pc = "filesys"
  /\ \E r \in {Inside(thread[t])} :
       /\ Store(r.w)
       /\ thread' = [thread EXCEPT ![t].pc = "sema_up", ![t].ret = r.v,
                                    ![t].fd_table = r.fds]
  /\ UNCHANGED <<last, free_map_lock, filesys_mutex>>

\* sema_up (&filesys_mutex), and the statements up to the return or, in
\* symlink, up to the second sema_down, or, in exit, up to the sema_down of
\* the next close or, after close (0), to thread_exit.
SemaUp(t) ==
  /\ Running /\ thread[t].pc = "sema_up"
  /\ filesys_mutex' = filesys_mutex + 1
  /\ LET c == thread[t]
     IN  thread' = [thread EXCEPT ![t] =
           IF c.op = "symlink" /\ c.stage = 1
           THEN IF c.ret = NULL THEN Returning(t, "symlink", -1)
                ELSE [c EXCEPT !.pc = "sema_down", !.stage = 2]
           ELSE IF c.op = "symlink"
           THEN Returning(t, "symlink", IF c.ret THEN 0 ELSE -1)
           ELSE IF c.op = "exit"
           THEN IF c.fd = 0 THEN Exited(c)
                ELSE Exiting(c, NextOpen(c.fd_table, c.fd + 1))
           ELSE IF c.op = "open"
           THEN IF c.ret = NULL THEN Returning(t, "open", -1)
                ELSE [Returning(t, "open", c.fd) EXCEPT !.fd = c.fd,
                                                        !.file = c.ret]
           ELSE Returning(t, c.op, c.ret)]
  /\ UNCHANGED <<free_map, free_map_file, disk, open_inodes, files, dir,
                 panic, last, free_map_lock>>

\* The return of the system call; open stores the file at its descriptor
\* first: fds[fd] = file.
SysReturn(t) ==
  /\ Running /\ thread[t].pc = "return"
  /\ LET c == thread[t]
     IN  /\ thread' = [thread EXCEPT ![t] =
                 [pc |-> "idle",
                  fd_table |-> IF c.file # NULL
                               THEN [c.fd_table EXCEPT ![c.fd] = c.file]
                               ELSE c.fd_table,
                  calls |-> c.calls]]
         /\ last' = [op |-> c.op, ret |-> c.ret, thread |-> t]
  /\ UNCHANGED <<free_map, free_map_file, disk, open_inodes, files, dir,
                 panic, free_map_lock, filesys_mutex>>

NextSys ==
  \/ \E t \in Threads, size \in LinkSizes : Create(t, <<1>>, size)
  \/ \E t \in Threads, name \in Names : Remove(t, name)
  \/ \E t \in Threads, name \in Names : Open(t, name)
  \/ \E t \in Threads, fd \in Fds : Filesize(t, fd)
  \/ \E t \in Threads, fd \in Fds : Read(t, fd, 1)
  \/ \E t \in Threads, fd \in Fds : Write(t, fd, 1)
  \/ \E t \in Threads, fd \in Fds : Seek(t, fd, 0)
  \/ \E t \in Threads, fd \in Fds : Tell(t, fd)
  \/ \E t \in Threads, fd \in Fds : Close(t, fd)
  \/ \E t \in Threads : Symlink(t, <<1>>, <<2>>)
  \/ \E t \in Threads, fd \in Fds : Readdir(t, fd)
  \/ \E t \in Threads, fd \in Fds : Isdir(t, fd)
  \/ \E t \in Threads, fd \in Fds : Inumber(t, fd)
  \/ \E t \in Threads : Stat(t)
  \/ \E t \in Threads : Exit(t)
  \/ \E t \in Threads : SemaDown(t)
  \/ \E t \in Threads : Filesys(t)
  \/ \E t \in Threads : SemaUp(t)
  \/ \E t \in Threads : SysReturn(t)

SpecSys == InitFM /\ [][NextSys]_vars

\* ---------------------------------------------------- inode properties
\* The state with the removal of inode p undone.
Unremoved(w, p) == [w EXCEPT !.open_inodes[Idx(w, p)].removed = FALSE]

\* The sectors of the data run of a cached inode.
DataRun(ino) == Range(ino.data.start, bytes_to_sectors(ino.data.length))

\* What a caller can see of a read and of a write.
SameRead(a, b) == a.v = b.v /\ a.buf = b.buf
SameWrite(a, b) == a.v = b.v /\ a.w.disk = b.w.disk

\* C1: while an inode that was removed is still open, its own sector and its
\* data run stay allocated, and inode_read_at and inode_write_at on it give
\* what they would give had it not been removed.
C1_DeferredDeletion ==
  panic = "" =>
    \A i \in 1 .. Len(open_inodes) :
      open_inodes[i].removed =>
        /\ open_inodes[i].open_cnt > 0
        /\ free_map[open_inodes[i].sector]
        /\ \A s \in DataRun(open_inodes[i]) : free_map[s]
        /\ \A size \in Sizes, ofs \in Sizes, fail \in 0 .. 1 :
             /\ SameRead(
                  inode_read_at(W(fail), open_inodes[i].ptr, size, ofs),
                  inode_read_at(Unremoved(W(fail), open_inodes[i].ptr),
                                open_inodes[i].ptr, size, ofs))
             /\ SameWrite(
                  inode_write_at(W(fail), open_inodes[i].ptr,
                                 [k \in 1 .. size |-> 1], size, ofs),
                  inode_write_at(Unremoved(W(fail), open_inodes[i].ptr),
                                 open_inodes[i].ptr,
                                 [k \in 1 .. size |-> 1], size, ofs))

\* Bytes have moved through a handle whose inode was removed.
C1_Witness ==
  /\ panic = ""
  /\ last.op \in {"file_read_at", "file_write_at"}
  /\ last.ret > 0
  /\ Ino(W(0), files[last.file].inode).removed

\* The free map with the sectors of inode ino given back.
Reclaimed(ino) ==
  [s \in Sectors |-> free_map[s] /\ s # ino.sector /\ s \notin DataRun(ino)]

\* C2: inode_close changes the free map only when it takes open_cnt to zero
\* on a removed inode, and then it clears the bit of the inode's sector and
\* the bits of its data run, and no other.
C2_CloseReleases ==
  panic = "" =>
    \A i \in 1 .. Len(open_inodes), fail \in 0 .. 2 :
      /\ inode_close(W(fail), open_inodes[i].ptr).panic = ""
      /\ inode_close(W(fail), open_inodes[i].ptr).free_map =
           IF open_inodes[i].open_cnt = 1 /\ open_inodes[i].removed
           THEN Reclaimed(open_inodes[i])
           ELSE free_map

\* The last handle of a removed file has been closed, and sectors came back.
C2_Witness ==
  /\ panic = ""
  /\ last.op = "file_close"
  /\ last.released
  /\ ~Live(W(0), last.inode)

\* C3: no two cached inodes have the same sector; inode_open on a resident
\* sector returns the resident inode and adds one to its open_cnt; closing one
\* of several references keeps the inode cached and the free map as it is.
C3_OneInodePerSector ==
  panic = "" =>
    /\ \A i, j \in 1 .. Len(open_inodes) :
         open_inodes[i].sector = open_inodes[j].sector => i = j
    /\ \A i \in 1 .. Len(open_inodes) :
         /\ inode_open(W(0), open_inodes[i].sector).v = open_inodes[i].ptr
         /\ inode_open(W(0), open_inodes[i].sector).w =
              [W(0) EXCEPT !.open_inodes[i].open_cnt = @ + 1]
         /\ open_inodes[i].open_cnt >= 2 =>
              inode_close(W(0), open_inodes[i].ptr) =
                [W(0) EXCEPT !.open_inodes[i].open_cnt = @ - 1]

\* One of two handles on the same inode has been closed; the other still
\* refers to the cached inode.
C3_Witness ==
  /\ panic = ""
  /\ last.op = "file_close"
  /\ Live(W(0), last.inode)
  /\ \E f \in UserFiles : files[f].inode = last.inode

\* The live references to the cached inode p: the struct files that point to
\* it.  No directory is open between two calls.
References(p) == {f \in FilePtrs : files[f].live /\ files[f].inode = p}

\* C4: after each call every cached inode's open_cnt is the number of live
\* references to it, and is at least one.
C4_OpenCntIsReferences ==
  panic = "" =>
    \A i \in 1 .. Len(open_inodes) :
      /\ open_inodes[i].open_cnt >= 1
      /\ open_inodes[i].open_cnt =
           Cardinality(References(open_inodes[i].ptr))

\* The calls that may allocate record what free_map_allocate returned.
Allocs ==
  IF last.op \in {"filesys_create", "filesys_symlink"} THEN last.allocs
  ELSE {}

\* C9: bits 0 and 1 of the free map are set in every state, and
\* free_map_allocate asked for at least one sector returns neither 0 nor 1.
C9_ReservedSectors ==
  /\ free_map[FREE_MAP_SECTOR]
  /\ free_map[ROOT_DIR_SECTOR]
  /\ \A a \in Allocs :
       a[1] >= 1 => a[2] \notin {FREE_MAP_SECTOR, ROOT_DIR_SECTOR}

\* A file with data, made after a file was removed and closed.
C9_Witness ==
  /\ panic = ""
  /\ last.op = "filesys_create" /\ last.ret
  /\ \E a, b \in last.allocs : a # b /\ a[1] >= 1 /\ b[1] >= 1
  /\ \E s \in Sectors : ~free_map[s] /\ disk[s].t = "inode"

\* C9 as stated: free_map_allocate never returns sector 0 or 1.
C9_NeverReturned ==
  /\ free_map[FREE_MAP_SECTOR]
  /\ free_map[ROOT_DIR_SECTOR]
  /\ \A a \in Allocs : a[2] \notin {FREE_MAP_SECTOR, ROOT_DIR_SECTOR}

\* ------------------------------------------------ allocator properties
\* The call that `last` records found a run and then failed to write the bitmap.
WriteFailed ==
  /\ last.op = "free_map_allocate"
  /\ last.fail = 1
  /\ bitmap_scan(last.before, 0, last.cnt, FALSE) # BITMAP_ERROR

\* C5: when free_map_allocate cannot write the bitmap to its file it returns
\* false, leaves *sectorp as it was, and the in-memory bitmap is what it was
\* before the call.
C5_AllocateAllOrNothing ==
  WriteFailed =>
    /\ ~last.ret
    /\ last.sectorp = Unwritten
    /\ free_map = last.before

C5_Witness == WriteFailed /\ last.cnt >= 1 /\ panic = ""

\* The starts of the runs of cnt clear bits of bitmap b.
ClearRuns(b, cnt) ==
  {s \in 0 .. (NumSectors - cnt) : \A i \in s .. (s + cnt - 1) : ~b[i]}

\* C6: free_map_allocate (cnt), cnt >= 1, whose write succeeds returns the
\* lowest start of a run of cnt clear bits, sets those cnt bits and no other;
\* with no such run it returns false and leaves the bitmap alone.
C6_FirstFit ==
  (last.op = "free_map_allocate" /\ last.cnt >= 1 /\ last.fail = 0) =>
    IF ClearRuns(last.before, last.cnt) # {}
    THEN /\ last.ret
         /\ last.sectorp \in ClearRuns(last.before, last.cnt)
         /\ \A s \in ClearRuns(last.before, last.cnt) : last.sectorp <= s
         /\ free_map =
              [i \in Sectors |->
                 last.before[i]
                   \/ i \in last.sectorp .. (last.sectorp + last.cnt - 1)]
    ELSE ~last.ret /\ free_map = last.before

\* An allocation that had a choice: the lowest run is not the only one.
C6_Witness ==
  /\ last.op = "free_map_allocate" /\ last.cnt >= 1 /\ last.fail = 0
  /\ last.ret
  /\ Cardinality(ClearRuns(last.before, last.cnt)) >= 2

\* C7: free_map_release (s, count) right after the free_map_allocate (count)
\* that returned s puts the in-memory bitmap back to what it was before the
\* allocation.
C7_ReleaseUndoesAllocate ==
  (last.op = "free_map_release" /\ last.undoes /\ panic = "") =>
    free_map = last.from

C7_Witness ==
  /\ last.op = "free_map_release" /\ last.undoes /\ panic = ""
  /\ last.cnt >= 2

\* C8: free_map_release on a range with a clear bit stops in the assertion
\* failure and changes no bit.
C8_ReleaseOfClearIsFatal ==
  (last.op = "free_map_release"
     /\ ~bitmap_all(last.before, last.sector, last.cnt)) =>
    /\ panic = "assertion failed: bitmap_all (free_map, sector, cnt)"
    /\ free_map = last.before

\* A release of a run that is allocated in part only.
C8_Witness ==
  /\ last.op = "free_map_release"
  /\ bitmap_contains(last.before, last.sector, last.cnt, FALSE)
  /\ bitmap_contains(last.before, last.sector, last.cnt, TRUE)
  /\ panic # ""

\* C10: when free_map_allocate has returned true, and when free_map_release
\* has returned, the bitmap stored in the free-map file is the in-memory bitmap.
C10_PersistedIsInMemory ==
  (/\ panic = ""
   /\ \/ last.op = "free_map_allocate" /\ last.ret
      \/ last.op = "free_map_release") =>
    Persisted(W(0), free_map)

\* ------------------------------------------------- creation that fails
\* C11: whenever inode_create returns false, for want of memory, of a run of
\* free sectors or of the write of the bitmap, the free map is what it was
\* before the call and no sector of the device has been written.
C11_FailedCreateLeavesNoTrace ==
  panic = "" =>
    \A sector \in Sectors, length \in CreateSizes, fail \in 0 .. 2 :
      ~inode_create(W(fail), sector, length).v =>
        /\ inode_create(W(fail), sector, length).w.free_map = free_map
        /\ inode_create(W(fail), sector, length).w.disk = disk
        /\ inode_create(W(fail), sector, length).w.panic = ""

\* filesys_create has failed inside inode_create: the inode's sector had been
\* allocated and no data run was.
C11_Witness ==
  /\ panic = ""
  /\ last.op = "filesys_create" /\ ~last.ret
  /\ \E a \in last.allocs : last.allocs = {a} /\ a[1] = 1

\* C12: whenever filesys_create returns false, whichever step failed, the
\* free map on return is the free map before the call.
C12_FailedCreateFreesAll ==
  Running =>
    \A name \in Names, size \in CreateSizes, fail \in 0 .. 6 :
      (/\ ~filesys_create(W(fail), name, size).v
       /\ filesys_create(W(fail), name, size).w.panic = "") =>
        filesys_create(W(fail), name, size).w.free_map = free_map

\* ------------------------------------------------------ reads and writes
Max(a, b) == IF a > b THEN a ELSE b

\* The bytes of the file of inode ino, as they lie on the device of w.
FileBytes(w, ino) ==
  [k \in 1 .. ino.data.length |->
     AsBytes(w.disk[ino.data.start + ((k - 1) \div BLOCK_SECTOR_SIZE)])
       [((k - 1) % BLOCK_SECTOR_SIZE) + 1]]

\* A byte that no file holds: one more than the bytes of a junk sector.
Mark == JunkBytes[1] + 1

\* w with every sector outside the data run of ino overwritten.
Scrubbed(w, ino) ==
  [w EXCEPT !.disk =
     [s \in Sectors |->
        IF s \in DataRun(ino) THEN w.disk[s]
        ELSE DataSector([i \in 1 .. BLOCK_SECTOR_SIZE |-> Mark])]]

\* C13: inode_read_at with size >= 0, offset >= 0 and no failing malloc
\* returns min(size, max(0, length - offset)), stores the file's bytes from
\* offset on in order, changes nothing, and gives the same whatever the
\* sectors outside the inode's data run hold.
C13_ReadAtCount ==
  panic = "" =>
    \A i \in 1 .. Len(open_inodes), size \in Sizes, offset \in Offsets :
      Let(inode_read_at(W(0), open_inodes[i].ptr, size, offset), LAMBDA r :
        /\ r.v = Min(size, Max(0, inode_length(open_inodes[i]) - offset))
        /\ r.buf = SubSeq(FileBytes(W(0), open_inodes[i]),
                          offset + 1, offset + r.v)
        /\ r.w = W(0)
        /\ SameRead(r, inode_read_at(Scrubbed(W(0), open_inodes[i]),
                                     open_inodes[i].ptr, size, offset)))

\* A read has crossed from a full first sector into a partial second one, in a
\* file whose first two bytes differ.
C13_Witness ==
  /\ panic = ""
  /\ last.op = "file_read_at"
  /\ last.ret = BLOCK_SECTOR_SIZE + 1
  /\ FileBytes(W(0), Ino(W(0), files[last.file].inode))[1]
       # FileBytes(W(0), Ino(W(0), files[last.file].inode))[2]

\* C14: inode_write_at on an inode whose deny_write_cnt is not zero returns 0
\* and writes no sector, whatever the size and the offset.
C14_DeniedWriteWritesNothing ==
  panic = "" =>
    \A i \in 1 .. Len(open_inodes), size \in Sizes, offset \in Offsets,
       fail \in 0 .. 1 :
      open_inodes[i].deny_write_cnt # 0 =>
        Let(inode_write_at(W(fail), open_inodes[i].ptr,
                           [k \in 1 .. size |-> 1], size, offset), LAMBDA r :
          r.v = 0 /\ r.w = W(fail))

\* A write inside the file, through a handle whose inode is write-denied, has
\* returned 0.
C14_Witness ==
  /\ panic = ""
  /\ last.op = "file_write" /\ last.size > 0 /\ last.ret = 0
  /\ Ino(W(0), files[last.file].inode).deny_write_cnt > 0
  /\ files[last.file].pos < file_length(W(0), last.file)

\* What fits: the bytes between offset and the end of a file of that length.
Fits(size, length, offset) == Min(size, Max(0, length - offset))

\* C15: inode_write_at on an inode with deny_write_cnt = 0 never changes the
\* inode's length; when no malloc fails it returns
\* min(size, max(0, length - offset)), which is length - offset for a write
\* that reaches beyond the end; when the malloc of the bounce buffer fails it
\* returns no more than that.
C15_WriteTruncates ==
  panic = "" =>
    \A i \in 1 .. Len(open_inodes), size \in Sizes, offset \in Offsets,
       fail \in 0 .. 1 :
      open_inodes[i].deny_write_cnt = 0 =>
        Let(inode_write_at(W(fail), open_inodes[i].ptr,
                           [k \in 1 .. size |-> 1], size, offset), LAMBDA r :
          /\ r.w.panic = ""
          /\ r.w.open_inodes = open_inodes
          /\ AsInode(r.w.disk[open_inodes[i].sector]) =
               AsInode(disk[open_inodes[i].sector])
          /\ r.v <= Fits(size, inode_length(open_inodes[i]), offset)
          /\ fail = 0 =>
               r.v = Fits(size, inode_length(open_inodes[i]), offset))

\* A write that began inside the file and asked for more than was left has
\* stopped at the end of the file.
C15_Witness ==
  /\ panic = ""
  /\ last.op = "file_write" /\ last.ret > 0 /\ last.size > last.ret
  /\ files[last.file].pos = file_length(W(0), last.file)

\* C15 as stated: every write that reaches beyond the end returns
\* length - offset, a failing malloc or not.
C15_AlwaysLengthMinusOffset ==
  panic = "" =>
    \A i \in 1 .. Len(open_inodes), size \in Sizes, offset \in Offsets,
       fail \in 0 .. 1 :
      (/\ open_inodes[i].deny_write_cnt = 0
       /\ offset <= inode_length(open_inodes[i])
       /\ size > inode_length(open_inodes[i]) - offset) =>
        inode_write_at(W(fail), open_inodes[i].ptr,
                       [k \in 1 .. size |-> 1], size, offset).v =
          inode_length(open_inodes[i]) - offset

\* The same kernel state, in a call whose fail-th malloc fails.
Again(w, fail) == [w EXCEPT !.fail = fail]

\* C16: for a file that a caller holds open, every offset from 0 to its length
\* and every size, inode_read_at, then inode_write_at of the bytes read at the
\* same offset, then inode_read_at again gives the bytes of the first read and
\* leaves every sector of the device as it was; with no failing malloc and no
\* write-deny the write returns the count of the read.
C16_ReadWriteRead ==
  panic = "" =>
    \A f \in UserFiles, size \in Sizes, offset \in Offsets,
       fr \in 0 .. 1, fw \in 0 .. 1 :
      offset <= file_length(W(0), f) =>
        Let(inode_read_at(W(fr), files[f].inode, size, offset), LAMBDA r1 :
        Let(inode_write_at(Again(r1.w, fw), files[f].inode, r1.buf, r1.v,
                           offset), LAMBDA wr :
        Let(inode_read_at(Again(wr.w, 0), files[f].inode, r1.v, offset),
            LAMBDA r2 :
          /\ r2.buf = r1.buf
          /\ wr.w.disk = disk
          /\ (fw = 0 /\ Ino(W(0), files[f].inode).deny_write_cnt = 0) =>
               wr.v = r1.v)))

\* An open file in which a written byte and an unwritten one share a sector,
\* just after a write of one byte.
C16_Witness ==
  /\ panic = ""
  /\ last.op = "file_write" /\ last.ret = 1
  /\ \E k \in 1 .. (file_length(W(0), last.file) - 1) :
       /\ (k - 1) \div BLOCK_SECTOR_SIZE = k \div BLOCK_SECTOR_SIZE
       /\ FileBytes(W(0), Ino(W(0), files[last.file].inode))[k]
            # FileBytes(W(0), Ino(W(0), files[last.file].inode))[k + 1]

\* ------------------------------------------------------------ write-deny
\* The panics of the assertions of inode_deny_write and inode_allow_write.
DenyAssertions ==
  {"assertion failed: deny_write_cnt <= open_cnt",
   "assertion failed: deny_write_cnt > 0"}

\* C17: whatever handles are opened, reopened, write-denied, write-allowed and
\* closed, every cached inode has 0 <= deny_write_cnt <= open_cnt, and no
\* assertion of inode_deny_write or inode_allow_write fails.
C17_DenyWithinOpen ==
  /\ panic \notin DenyAssertions
  /\ \A i \in 1 .. Len(open_inodes) :
       /\ 0 <= open_inodes[i].deny_write_cnt
       /\ open_inodes[i].deny_write_cnt <= open_inodes[i].open_cnt

\* One of two write-denying handles has been closed: the inode is left with
\* one opener, who denies writes.
C17_Witness ==
  /\ panic = ""
  /\ last.op = "file_close"
  /\ Live(W(0), last.inode)
  /\ Ino(W(0), last.inode).open_cnt = 1
  /\ Ino(W(0), last.inode).deny_write_cnt = 1

\* The state with the write-deny count of the inode of handle f changed by d.
DenyCntPlus(w, f, d) ==
  [w EXCEPT !.open_inodes[Idx(w, w.files[f].inode)].deny_write_cnt = @ + d]

\* C18: file_deny_write on a handle whose flag is set, and file_allow_write on
\* one whose flag is clear, change nothing; on the other handles they flip the
\* flag and move the inode's deny_write_cnt by exactly one, and nothing else;
\* a second call right after the first changes nothing more.
C18_DenyAllowIdempotent ==
  panic = "" =>
    \A f \in UserFiles :
      /\ file_deny_write(W(0), f) =
           IF files[f].deny_write THEN W(0)
           ELSE DenyCntPlus([W(0) EXCEPT !.files[f].deny_write = TRUE], f, 1)
      /\ file_allow_write(W(0), f) =
           IF ~files[f].deny_write THEN W(0)
           ELSE DenyCntPlus([W(0) EXCEPT !.files[f].deny_write = FALSE], f, -1)
      /\ file_deny_write(file_deny_write(W(0), f), f) =
           file_deny_write(W(0), f)
      /\ file_allow_write(file_allow_write(W(0), f), f) =
           file_allow_write(W(0), f)

\* file_deny_write has been called on a handle that already denied writes,
\* while another handle on the same inode does not.
C18_Witness ==
  /\ panic = ""
  /\ last.op = "file_deny_write" /\ last.was
  /\ files[last.file].deny_write
  /\ Ino(W(0), files[last.file].inode).deny_write_cnt = 1
  /\ Ino(W(0), files[last.file].inode).open_cnt = 2

\* The live handles on inode p whose own deny_write flag is set.
Deniers(w, p) ==
  {f \in FilePtrs :
     w.files[f].live /\ w.files[f].inode = p /\ w.files[f].deny_write}

\* C19: in every state an inode's deny_write_cnt is the number of live handles
\* on it whose deny_write flag is set; file_close on a handle that shares its
\* inode takes one from the count when the handle's flag is set and nothing
\* otherwise, and ends the handle.
C19_DenyCntIsDeniers ==
  panic = "" =>
    /\ \A i \in 1 .. Len(open_inodes) :
         open_inodes[i].deny_write_cnt =
           Cardinality(Deniers(W(0), open_inodes[i].ptr))
    /\ \A f \in UserFiles :
         Ino(W(0), files[f].inode).open_cnt >= 2 =>
           Let(file_close(W(0), f), LAMBDA w2 :
             /\ w2.panic = ""
             /\ ~w2.files[f].live
             /\ Ino(w2, files[f].inode).deny_write_cnt =
                  Ino(W(0), files[f].inode).deny_write_cnt
                    - (IF files[f].deny_write THEN 1 ELSE 0)
             /\ Ino(w2, files[f].inode).open_cnt =
                  Ino(W(0), files[f].inode).open_cnt - 1)

\* The only write-denying handle of an inode has been closed while another
\* handle keeps the inode open: the count is back to zero.
C19_Witness ==
  /\ panic = ""
  /\ last.op = "file_close" /\ last.denied
  /\ Live(W(0), last.inode)
  /\ Ino(W(0), last.inode).deny_write_cnt = 0

\* ------------------------------------------------------------- positions
\* The heap of struct file with the position of handle f set to pos.
Moved(f, pos) == [files EXCEPT ![f].pos = pos]

\* C20: on every handle a caller holds, file_read and file_write add the count
\* they return to the handle's position and touch no other handle; the count
\* is 0 at or past the end of the file and for a denied write; file_read_at and
\* file_write_at leave every position alone; file_seek (p), p >= 0, sets the
\* position to p, which file_tell then returns; file_close and file_reopen
\* leave the positions of the other handles alone.
C20_Positions ==
  panic = "" =>
    \A f \in UserFiles :
      /\ \A size \in Sizes, fail \in 0 .. 1 :
           /\ Let(file_read(W(fail), f, size), LAMBDA r :
                /\ r.w.files = Moved(f, files[f].pos + r.v)
                /\ files[f].pos >= file_length(W(0), f) => r.v = 0)
           /\ Let(file_write(W(fail), f, [k \in 1 .. size |-> 1], size),
                  LAMBDA r :
                /\ r.w.files = Moved(f, files[f].pos + r.v)
                /\ files[f].pos >= file_length(W(0), f) => r.v = 0
                /\ Ino(W(0), files[f].inode).deny_write_cnt # 0 => r.v = 0)
      /\ \A size \in Sizes, file_ofs \in Offsets :
           /\ file_read_at(W(0), f, size, file_ofs).w.files = files
           /\ file_write_at(W(0), f, [k \in 1 .. size |-> 1], size,
                            file_ofs).w.files = files
      /\ \A new_pos \in Offsets :
           /\ file_seek(W(0), f, new_pos).files = Moved(f, new_pos)
           /\ file_tell(file_seek(W(0), f, new_pos), f) = new_pos
      /\ file_tell(W(0), f) = files[f].pos
      /\ \A g \in UserFiles \ {f} :
           /\ file_close(W(0), f).files[g] = files[g]
           /\ file_reopen(W(0), f).w.files[g] = files[g]

\* A read that asked for more than was left has stopped at the end of the
\* file, while another handle on the same file stands elsewhere.
C20_Witness ==
  /\ panic = ""
  /\ last.op = "file_read" /\ last.ret > 0 /\ last.ret < last.size
  /\ files[last.file].pos = file_length(W(0), last.file)
  /\ \E g \in UserFiles :
       /\ files[g].inode = files[last.file].inode
       /\ files[g].pos # files[last.file].pos

\* -------------------------------------------------------------- handles
\* C21: file_reopen (h) that gets its memory returns a handle that was not in
\* use, on the inode of h, at position 0 with its deny_write flag clear; the
\* inode's open_cnt is one more and nothing else has changed, h included;
\* reads, writes and seeks on either handle then leave the other's position
\* alone.  Without memory it returns NULL and changes nothing.
C21_ReopenIsIndependent ==
  panic = "" =>
    \A h \in UserFiles, fail \in 0 .. 1 :
      Let(file_reopen(W(fail), h), LAMBDA r :
        IF fail = 1 \/ FreeSlots(W(0)) = {}
        THEN r.v = NULL /\ Again(r.w, 0) = W(0)
        ELSE
          /\ r.v \in FreeSlots(W(0))
          /\ r.w =
               [W(0) EXCEPT
                  !.files[r.v] = [live |-> TRUE, inode |-> files[h].inode,
                                  pos |-> 0, deny_write |-> FALSE],
                  !.open_inodes[Idx(W(0), files[h].inode)].open_cnt = @ + 1]
          /\ \A size \in Sizes :
               /\ file_read(r.w, r.v, size).w.files[h] = files[h]
               /\ file_read(r.w, h, size).w.files[r.v].pos = 0
               /\ file_write(r.w, r.v, [k \in 1 .. size |-> 1], size)
                    .w.files[h] = files[h]
               /\ file_write(r.w, h, [k \in 1 .. size |-> 1], size)
                    .w.files[r.v].pos = 0
          /\ \A new_pos \in Offsets :
               /\ file_seek(r.w, r.v, new_pos).files[h] = files[h]
               /\ file_seek(r.w, h, new_pos).files[r.v].pos = 0)

\* A handle that stands inside the file and denies writes has been reopened.
C21_Witness ==
  /\ panic = ""
  /\ last.op = "file_reopen" /\ last.ret # NULL
  /\ files[last.ret].pos = 0 /\ ~files[last.ret].deny_write
  /\ \E h \in UserFiles \ {last.ret} :
       /\ files[h].inode = files[last.ret].inode
       /\ files[h].pos > 0
       /\ files[h].deny_write

\* C22: file_open owns the reference it is passed.  Without memory for the
\* handle it returns NULL and the reference is closed: open_cnt is one less,
\* or, if it was the last, the inode leaves the cache and, if removed, its
\* sectors are given back.  With memory open_cnt is as it was and the new
\* handle is on that inode at position 0.
C22_FileOpenOwnsInode ==
  panic = "" =>
    \A i \in 1 .. Len(open_inodes), fail \in 0 .. 1 :
      Let(file_open(W(fail), open_inodes[i].ptr), LAMBDA r :
        IF fail = 1 \/ FreeSlots(W(0)) = {}
        THEN /\ r.v = NULL
             /\ r.w.files = files
             /\ IF open_inodes[i].open_cnt >= 2
                THEN r.w.open_inodes =
                       [open_inodes EXCEPT ![i].open_cnt = @ - 1]
                ELSE r.w.open_inodes = RemoveAt(open_inodes, i)
             /\ r.w.free_map =
                  IF open_inodes[i].open_cnt = 1 /\ open_inodes[i].removed
                  THEN Reclaimed(open_inodes[i]) ELSE free_map
        ELSE /\ r.v \in FreeSlots(W(0))
             /\ r.w =
                  [W(0) EXCEPT
                     !.files[r.v] = [live |-> TRUE,
                                     inode |-> open_inodes[i].ptr,
                                     pos |-> 0, deny_write |-> FALSE]])

\* file_reopen has had no memory for the handle while a slot was free: NULL
\* came back and the inode's open_cnt counts the handles that remain.
C22_Witness ==
  /\ panic = ""
  /\ last.op = "file_reopen" /\ last.ret = NULL
  /\ FreeSlots(W(0)) # {}
  /\ \E h \in UserFiles :
       Ino(W(0), files[h].inode).open_cnt =
         Cardinality(References(files[h].inode))

\* ---------------------------------------------------------------- names
\* The calls that can put a name into the directory.
Creates == {"filesys_create", "filesys_symlink"}

\* C23: when filesys_remove (name) has returned true the name is out of the
\* directory; filesys_open of a name that is not in the directory returns
\* NULL, whether or not handles keep the removed inode in the cache; and a
\* name comes back into the directory only through a create.
C23_RemovedNameNotFound ==
  /\ [](panic = "" =>
          /\ (last.op = "filesys_remove" /\ last.ret) =>
               ~HasEntry(W(0), last.name)
          /\ \A name \in Names :
               ~HasEntry(W(0), name) =>
                 filesys_open(W(0), name, 0).v = NULL)
  /\ [][\A name \in Names :
          (dir[name] = -1 /\ dir'[name] # -1) => last'.op \in Creates]_vars

\* A file has been removed while a handle holds it open: its inode is still
\* in the cache, marked removed.
C23_Witness ==
  /\ panic = ""
  /\ last.op = "filesys_remove" /\ last.ret
  /\ FreeSlots(W(0)) # {}
  /\ \E h \in UserFiles :
       /\ Ino(W(0), files[h].inode).removed
       /\ disk[Ino(W(0), files[h].inode).sector].t = "inode"

\* The inode record stored on the device for directory entry name.
OnDisk(name) == AsInode(disk[dir[name]])

\* name is in the directory and its inode is marked as a symbolic link.
IsLink(name) == HasEntry(W(0), name) /\ OnDisk(name).is_symlink

\* The path a symbolic link holds: its file's bytes up to the first NUL.
LinkTarget(name) == CStr(FileBytes(W(0), [data |-> OnDisk(name)]))

\* filesys_open (linkpath) does what filesys_open (target) does: a handle on
\* the inode of target's directory entry that reads the same bytes when target
\* names a file that is no link, NULL when target is not in the directory.
Resolves(linkpath, target) ==
  Let(filesys_open(W(0), linkpath, 0), LAMBDA a :
  Let(filesys_open(W(0), target, 0), LAMBDA b :
    IF ~HasEntry(W(0), target) THEN a.v = NULL
    ELSE ~IsLink(target) =>
           /\ a.v # NULL /\ b.v # NULL
           /\ Ino(a.w, a.w.files[a.v].inode).sector = dir[target]
           /\ Ino(b.w, b.w.files[b.v].inode).sector = dir[target]
           /\ \A size \in Sizes :
                SameRead(file_read(a.w, a.v, size),
                         file_read(b.w, b.v, size))))

\* C24: after a filesys_symlink (target, linkpath) that returned true, and for
\* as long as linkpath stays a link: when target names a file that is no link,
\* filesys_open (linkpath) returns a handle on the inode that filesys_open
\* (target) returns one on, and reads through the two give the same bytes;
\* when target is not in the directory filesys_open (linkpath) returns NULL.
C24_LinkOpensTarget ==
  (panic = "" /\ FreeSlots(W(0)) # {}) =>
    /\ (last.op = "filesys_symlink" /\ last.ret) =>
         Resolves(last.linkpath, last.target)
    /\ \A linkpath \in Names :
         IsLink(linkpath) => Resolves(linkpath, LinkTarget(linkpath))

\* ---------------------------------------------------------------- threads
\* The call of thread record c made alone in state w: the state it leaves and
\* what it hands its caller.
Alone(w, c) ==
  IF c.op = "free_map_allocate"
  THEN Let(free_map_allocate(Again(w, c.fail), c.cnt, c.arg), LAMBDA r :
         [w |-> r.w, ret |-> [v |-> r.v, sectorp |-> r.sectorp]])
  ELSE [w |-> free_map_release(Again(w, c.fail), c.arg, c.cnt),
        ret |-> [v |-> TRUE, sectorp |-> c.arg]]

\* The orders in which the threads of the set S can make their calls.
Orders(S) ==
  {o \in [1 .. Cardinality(S) -> S] :
     \A i, j \in 1 .. Cardinality(S) : o[i] = o[j] => i = j}

\* The calls of the threads o[n], o[n + 1], ... made one after the other from
\* state w leave the bitmap and the disk as they are now, and each handed
\* its caller what the thread's call did.  A call that stopped the kernel is
\* the last one made and stops it in the serial order too; the calls it cut
\* short may come before it, whatever they would have returned.
RECURSIVE Serial(_, _, _)
Serial(o, n, w) ==
  IF n > Len(o)
  THEN panic = "" /\ w.free_map = free_map /\ w.disk = disk
  ELSE Let(Alone(w, thread[o[n]]), LAMBDA r :
         IF thread[o[n]].pc = "panic"
         THEN r.w.panic = panic /\ n = Len(o)
         ELSE /\ r.w.panic = ""
              /\ thread[o[n]].pc = "done" => r.ret = Ret(thread[o[n]])
              /\ Serial(o, n + 1, r.w))

\* The threads whose calls have come to an end.
Ended == {t \in Threads : thread[t].pc \in {"done", "panic"}}

\* The calls of the round are serializable: those that have come to an end,
\* and, when the kernel has stopped, any of those it cut short.
Serializable ==
  \/ Ended = {}
  \/ \E S \in SUBSET {t \in Threads : thread[t].pc # "idle"} :
       /\ Ended \subseteq S
       /\ \E o \in Orders(S) :
            Serial(o, 1, [W(0) EXCEPT !.free_map = RoundStart.free_map,
                                      !.disk = RoundStart.disk,
                                      !.panic = ""])

InFilesys == {t \in Threads : thread[t].pc \in {"filesys", "sema_up"}}

\* C26: at most one thread is between sema_down (&filesys_mutex) and sema_up
\* in a system call, the semaphore is down while one is, and every step that
\* changes the state of the file system is the call into the file system of
\* the thread that is there.
C26_SyscallsHoldMutex ==
  /\ [](/\ Cardinality(InFilesys) <= 1
        /\ filesys_mutex = 1 - Cardinality(InFilesys))
  /\ [][~(/\ UNCHANGED <<free_map, free_map_file, open_inodes, files, dir>>
           /\ \A s \in Sectors : /\ disk'[s].t = disk[s].t
                                  /\ disk'[s].v = disk[s].v)
        => \E t \in Threads :
             /\ InFilesys = {t}
             /\ filesys_mutex = 0
             /\ thread[t].pc = "filesys" /\ thread'[t].pc = "sema_up"]_vars

\* A thread has made its call into the file system and has not yet raised
\* the semaphore that the other thread waits for.
C26_Witness ==
  \E t, u \in Threads :
    /\ thread[t].pc = "sema_up" /\ thread[t].op = "write"
    /\ thread[t].ret = 1
    /\ thread[u].pc = "sema_down"
    /\ filesys_mutex = 0

\* ---------------------------------------------------------------- extents
\* The sectors that are marked in bitmap b and not in bitmap a.
Marked(a, b) == {s \in Sectors : b[s] /\ ~a[s]}

\* C27: a filesys_create (name, initial_size) that returns true clears no bit
\* and sets exactly 1 + ceil (initial_size / BLOCK_SECTOR_SIZE) bits that were
\* clear: the bit of the sector the directory now has for the name, and the
\* bits of the run of ceil (initial_size / BLOCK_SECTOR_SIZE) sectors from the
\* start that the inode in that sector records, with initial_size as its
\* length.
C27_CreateMarksExtent ==
  Running =>
    \A name \in Names, initial_size \in CreateSizes, fail \in 0 .. 6 :
      Let(filesys_create(W(fail), name, initial_size), LAMBDA r :
        (r.v /\ r.w.panic = "") =>
          Let(AsInode(r.w.disk[r.w.dir[name]]), LAMBDA data :
            /\ r.w.dir[name] \in Sectors
            /\ r.w.disk[r.w.dir[name]].t = "inode"
            /\ data.length = initial_size
            /\ \A s \in Sectors : free_map[s] => r.w.free_map[s]
            /\ Marked(free_map, r.w.free_map) =
                 {r.w.dir[name]}
                   \cup Range(data.start, bytes_to_sectors(initial_size))
            /\ r.w.dir[name]
                 \notin Range(data.start, bytes_to_sectors(initial_size))
            /\ Cardinality(Marked(free_map, r.w.free_map)) =
                 1 + ((initial_size + BLOCK_SECTOR_SIZE - 1)
                        \div BLOCK_SECTOR_SIZE)))

\* filesys_create has made a file of a sector and one byte: its inode sector
\* and two data sectors next to each other are marked.
C27_Witness ==
  /\ panic = ""
  /\ last.op = "filesys_create" /\ last.ret
  /\ \E name \in Names :
       /\ HasEntry(W(0), name)
       /\ OnDisk(name).length = BLOCK_SECTOR_SIZE + 1
       /\ last.allocs = {<<1, dir[name]>>, <<2, OnDisk(name).start>>}
       /\ free_map[OnDisk(name).start] /\ free_map[OnDisk(name).start + 1]

\* The inodes in use: those in the cache and those a directory entry names,
\* each with its sector and the sectors of its data run.
Holders ==
  {[sector |-> open_inodes[i].sector, run |-> DataRun(open_inodes[i])] :
     i \in 1 .. Len(open_inodes)}
    \cup {[sector |-> dir[name],
           run |-> Range(OnDisk(name).start,
                         bytes_to_sectors(OnDisk(name).length))] :
            name \in {n \in Names : HasEntry(W(0), n)}}

\* Every sector of the inodes in use is marked in the free map.
HoldersMarked ==
  panic = "" =>
    \A h \in Holders :
      /\ h.sector \in Sectors /\ free_map[h.sector]
      /\ \A s \in h.run : s \in Sectors /\ free_map[s]

\* A step that clears bits clears those of an inode that was in use and is
\* neither cached nor named by the directory afterwards.
ClearedByLastClose ==
  panic' = "" =>
    \A s \in Sectors :
      (free_map[s] /\ ~free_map'[s]) =>
        \E h \in Holders :
          /\ s \in {h.sector} \cup h.run
          /\ \A g \in Holders' : g.sector # h.sector

\* C28: the sector and the data run of every inode that is in the cache or
\* that a directory entry names are marked in the free map, and a bit is
\* cleared only when the last close of a removed inode gives its sectors
\* back.
C28_InUseIsAllocated == []HoldersMarked /\ [][ClearedByLastClose]_vars

\* A removed inode is still open, its sector and its data sector marked,
\* after the last close of another removed inode gave that one's sectors
\* back.
C28_Witness ==
  /\ panic = ""
  /\ last.op = "file_close" /\ last.released
  /\ \E i \in 1 .. Len(open_inodes) :
       /\ open_inodes[i].removed
       /\ open_inodes[i].data.length > 0
       /\ free_map[open_inodes[i].sector]
       /\ free_map[open_inodes[i].data.start]

\* inode_close called n times on inode p: the closes of all its openers.
RECURSIVE CloseAll(_, _, _)
CloseAll(w, p, n) ==
  IF n = 0 THEN w ELSE CloseAll(inode_close(w, p), p, n - 1)

\* The record in the sector of cached inode ino.
Stored(w, ino) == AsInode(w.disk[ino.sector])

\* After inode_set_symlink (p, b) the flag is b in the cache and on disk, the
\* cached record is the stored one, and once every opener has closed the inode
\* a new inode_open of its sector reads b.
WrittenThrough(p, b) ==
  Let(inode_set_symlink(W(0), p, b), LAMBDA w1 :
    /\ w1.panic = ""
    /\ inode_get_symlink(w1, p) = b
    /\ w1.disk[Ino(w1, p).sector].t = "inode"
    /\ Stored(w1, Ino(w1, p)) = Ino(w1, p).data
    /\ [Ino(w1, p).data EXCEPT !.is_symlink = Ino(W(0), p).data.is_symlink]
         = Ino(W(0), p).data
    /\ Let(CloseAll(w1, p, Ino(w1, p).open_cnt), LAMBDA w2 :
       Let(inode_open(w2, Ino(w1, p).sector), LAMBDA o :
         /\ ~Live(w2, p)
         /\ o.v # NULL
         /\ inode_get_symlink(o.w, o.v) = b)))

\* C29: the record a cached inode holds is the record in its sector;
\* inode_set_symlink (inode, b) sets the flag in the cache and on disk at
\* once, so that inode_get_symlink gives b from the cache and again after the
\* inode has left the cache and is opened anew; inode_create, given a sector
\* that free_map_allocate returned, writes is_symlink = false.
C29_CacheIsDisk ==
  panic = "" =>
    /\ \A i \in 1 .. Len(open_inodes) :
         /\ disk[open_inodes[i].sector].t = "inode"
         /\ open_inodes[i].data = Stored(W(0), open_inodes[i])
         /\ \A b \in BOOLEAN : WrittenThrough(open_inodes[i].ptr, b)
    /\ Running =>
         \A length \in CreateSizes, fail \in 0 .. 4 :
           Let(free_map_allocate(W(fail), 1, 0), LAMBDA a :
           Let(inode_create(a.w, a.sectorp, length), LAMBDA r :
             (a.v /\ r.v /\ r.w.panic = "") =>
               /\ r.w.disk[a.sectorp].t = "inode"
               /\ ~AsInode(r.w.disk[a.sectorp]).is_symlink))
    /\ (last.op = "filesys_create" /\ last.ret) =>
         \E name \in Names :
           /\ HasEntry(W(0), name)
           /\ last.allocs # {} /\ \E a \in last.allocs : a[2] = dir[name]
           /\ ~OnDisk(name).is_symlink

\* filesys_symlink has made a link: inode_set_symlink marked its inode, the
\* close that followed took the inode out of the cache, the flag is in the
\* inode's sector and a new inode_open of the sector reads it.
C29_Witness ==
  /\ panic = ""
  /\ last.op = "filesys_symlink" /\ last.ret
  /\ HasEntry(W(0), last.linkpath)
  /\ \A i \in 1 .. Len(open_inodes) :
       open_inodes[i].sector # dir[last.linkpath]
  /\ OnDisk(last.linkpath).is_symlink
  /\ Let(inode_open(W(0), dir[last.linkpath]), LAMBDA o :
       o.v # NULL /\ inode_get_symlink(o.w, o.v))

\* The inodes in use in world w, each with its sector, the first sector of its
\* data and its length: the cached ones as the cache holds them, and those the
\* directory names as their sectors hold them.
Extents(w) ==
  {[sector |-> w.open_inodes[i].sector,
    start |-> w.open_inodes[i].data.start,
    length |-> w.open_inodes[i].data.length] : i \in 1 .. Len(w.open_inodes)}
    \cup {[sector |-> w.dir[name],
           start |-> AsInode(w.disk[w.dir[name]]).start,
           length |-> AsInode(w.disk[w.dir[name]]).length] :
            name \in {n \in Names : HasEntry(w, n)}}

\* World w2 comes from this state with every inode in use as long as it was
\* and where it was, and with no sector allocated.
Fixed(w2) ==
  w2.panic = "" =>
    /\ Extents(w2) \subseteq Extents(W(0))
    /\ \A s \in Sectors : w2.free_map[s] => free_map[s]

\* C30: an inode keeps the length and the first data sector it was created
\* with, and gets no more sectors: filesys_open, file_reopen, file_read,
\* file_read_at, file_write, file_write_at, file_seek, file_deny_write,
\* file_allow_write, inode_set_symlink, filesys_remove and file_close leave
\* the length and the start of every inode in use as they were and mark no
\* sector in the free map.
C30_ExtentIsFixed ==
  Running =>
    /\ \A name \in Names, fail \in 0 .. 5 :
         /\ BelowCap => Fixed(filesys_open(W(fail), name, 0).w)
         /\ Fixed(filesys_remove(W(fail), name).w)
    /\ \A file \in UserFiles :
         /\ \A fail \in 0 .. 2 :
              /\ BelowCap => Fixed(file_reopen(W(fail), file).w)
              /\ Fixed(file_close(W(fail), file))
              /\ \A size \in Sizes :
                   /\ Fixed(file_read(W(fail), file, size).w)
                   /\ Fixed(file_write(W(fail), file,
                                       [i \in 1 .. size |-> 1], size).w)
                   /\ \A ofs \in Offsets :
                        /\ Fixed(file_read_at(W(fail), file, size, ofs).w)
                        /\ Fixed(file_write_at(W(fail), file,
                                               [i \in 1 .. size |-> 1],
                                               size, ofs).w)
         /\ \A new_pos \in Offsets : Fixed(file_seek(W(0), file, new_pos))
         /\ Fixed(file_deny_write(W(0), file))
         /\ Fixed(file_allow_write(W(0), file))
         /\ \A b \in BOOLEAN :
              Fixed(inode_set_symlink(W(0), files[file].inode, b))

\* file_write was asked for more bytes than the file had left from the
\* handle's position: it wrote up to the end of the file, and the file is as
\* long as it was made.
C30_Witness ==
  /\ panic = ""
  /\ last.op = "file_write"
  /\ last.ret > 0 /\ last.ret < last.size
  /\ files[last.file].live
  /\ files[last.file].pos = BLOCK_SECTOR_SIZE + 1
  /\ file_length(W(0), last.file) = BLOCK_SECTOR_SIZE + 1
  /\ HasEntry(W(0), <<1>>)
  /\ OnDisk(<<1>>).length = BLOCK_SECTOR_SIZE + 1

\* From name, n links can be followed one after the other, each holding the
\* name of the next.
RECURSIVE LinkChain(_, _)
LinkChain(name, n) ==
  IF n = 0 THEN TRUE
  ELSE /\ IsLink(name)
       /\ LinkTarget(name) \in Names
       /\ LinkChain(LinkTarget(name), n - 1)

\* The links from name come back to a link already followed: more links can
\* be followed than there are names.
Cyclic(name) == LinkChain(name, Cardinality(Names) + 1)

\* C31: filesys_open looks for no cycle and counts no depth: on a name whose
\* chain of stored link targets is cyclic it calls itself without end and
\* returns no result (the kernel stops); on any other name it returns.
C31_CyclicLinkNeverReturns ==
  (Running /\ BelowCap) =>
    \A name \in Names :
      Let(filesys_open(W(0), name, 0), LAMBDA r :
        IF Cyclic(name)
        THEN r.w.panic = "filesys_open: unbounded recursion"
        ELSE r.w.panic = "")

\* filesys_open was called on a link that holds its own name, and the kernel
\* has stopped in the recursion.
C31_Witness ==
  /\ panic = "filesys_open: unbounded recursion"
  /\ last.op = "filesys_open"
  /\ IsLink(<<2>>)
  /\ LinkTarget(<<2>>) = <<2>>

\* Byte j of sector s lies at this position of the file of inode ino.
PosOf(ino, s, j) == (s - ino.data.start) * BLOCK_SECTOR_SIZE + (j - 1)

\* Going from this state to world w2, a write to inode ino that began at offset
\* and returned n has changed the bytes at offset .. offset + n - 1 of the file
\* and nothing else on the device.
OnlyWindow(w2, ino, offset, n) ==
  \A s \in Sectors :
    /\ w2.disk[s].t = disk[s].t
    /\ IF s \in DataRun(ino) /\ disk[s].t = "data"
       THEN \A j \in 1 .. BLOCK_SECTOR_SIZE :
              \/ w2.disk[s].v[j] = disk[s].v[j]
              \/ /\ PosOf(ino, s, j) >= offset
                 /\ PosOf(ino, s, j) < offset + n
                 /\ PosOf(ino, s, j) < inode_length(ino)
       ELSE w2.disk[s].v = disk[s].v

\* C32: on the inode of a file a caller holds open, inode_write_at changes
\* the bytes offset .. offset + bytes_written - 1 of the file and no other: the other bytes of the file, those of a sector
\* written in part, the bytes of the last sector past the end of the file and
\* every sector outside the inode's data run are what they were.
C32_WriteChangesWindowOnly ==
  panic = "" =>
    \A f \in UserFiles, size \in Sizes, offset \in Offsets, fail \in 0 .. 1 :
      Let(Ino(W(0), files[f].inode), LAMBDA ino :
      Let(inode_write_at(W(fail), files[f].inode, [k \in 1 .. size |-> 2],
                         size, offset), LAMBDA r :
        /\ r.w.panic = ""
        /\ r.v >= 0 /\ r.v <= size
        /\ OnlyWindow(r.w, ino, offset, r.v)
        /\ \A k \in 1 .. r.v : FileBytes(r.w, ino)[offset + k] = 2))

\* file_write has written the second byte of the file's first sector and has
\* left the first byte, which was never written, as it was.
C32_Witness ==
  /\ panic = ""
  /\ last.op = "file_write" /\ last.ret = 1
  /\ files[last.file].live
  /\ files[last.file].pos = 2
  /\ FileBytes(W(0), Ino(W(0), files[last.file].inode))[1] = 0
  /\ FileBytes(W(0), Ino(W(0), files[last.file].inode))[2] = 1

\* C33: after an inode_create (sector, length) that returned true, a read of
\* the whole file, before any write, returns length bytes that are all zero:
\* every sector of the new data run holds zeros, whatever it held before.
C33_NewFileReadsZeros ==
  Running =>
    \A length \in Sizes, fail \in 0 .. 4 :
      Let(free_map_allocate(W(fail), 1, 0), LAMBDA a :
      Let(inode_create(a.w, a.sectorp, length), LAMBDA c :
        (a.v /\ c.v /\ c.w.panic = "") =>
          Let(inode_open(Again(c.w, 0), a.sectorp), LAMBDA o :
          Let(inode_read_at(o.w, o.v, length, 0), LAMBDA r :
            /\ o.v # NULL
            /\ inode_length(Ino(o.w, o.v)) = length
            /\ r.v = length
            /\ r.buf = [k \in 1 .. length |-> 0]
            /\ \A s \in DataRun(Ino(o.w, o.v)) :
                 /\ s \in Sectors /\ ~free_map[s]
                 /\ o.w.disk[s] = DataSector(ZeroBytes)))))

\* filesys_create has made a file of one byte in a sector where a file that
\* was written, removed and closed had its data: the new file's byte is zero,
\* and the next sector, free again, still holds a byte of the old file.
C33_Witness ==
  /\ panic = ""
  /\ last.op = "filesys_create" /\ last.ret
  /\ HasEntry(W(0), <<1>>)
  /\ OnDisk(<<1>>).length = 1
  /\ FileBytes(W(0), [data |-> OnDisk(<<1>>)]) = <<0>>
  /\ OnDisk(<<1>>).start + 1 \in Sectors
  /\ ~free_map[OnDisk(<<1>>).start + 1]
  /\ disk[OnDisk(<<1>>).start + 1].t = "data"
  /\ disk[OnDisk(<<1>>).start + 1].v[1] = 1

\* The file that name names is in world w2 what it is in this state: the same
\* inode sector, the same inode record, the same bytes.
SameFile(w2, name) ==
  /\ w2.dir[name] = dir[name]
  /\ w2.disk[dir[name]].t = disk[dir[name]].t
  /\ AsInode(w2.disk[dir[name]]) = OnDisk(name)
  /\ FileBytes(w2, [data |-> OnDisk(name)])
       = FileBytes(W(0), [data |-> OnDisk(name)])

\* C34: a filesys_symlink (target, linkpath) that returns false changes no
\* file there is: when linkpath names a regular file, the file's is_symlink
\* flag and its bytes are after the call what they were before.
C34_FailedSymlinkChangesNoFile ==
  (Running /\ BelowCap) =>
    \A target \in Names, linkpath \in Names, fail \in 0 .. 10 :
      Let(filesys_symlink(W(fail), target, linkpath), LAMBDA r :
        (~r.v /\ r.w.panic = "") =>
          \A name \in Names : HasEntry(W(0), name) => SameFile(r.w, name))

\* open_cnt of the inode of sector in world w; an inode that is not in the
\* cache has no opener.
OpenCnt(w, sector) ==
  IF \E i \in 1 .. Len(w.open_inodes) : w.open_inodes[i].sector = sector
  THEN w.open_inodes[CHOOSE i \in 1 .. Len(w.open_inodes) :
                       w.open_inodes[i].sector = sector].open_cnt
  ELSE 0

\* C35: when the symlink system call has returned, with 0 or with -1, the
\* open_cnt of the inode of target is what it was before the call: the handle
\* opened to see whether target exists is not left open.
C35_SymlinkLeavesOpenCnt ==
  (Running /\ BelowCap) =>
    \A target \in Names, linkpath \in Names :
      Let(symlink(W(0), target, linkpath), LAMBDA r :
        (r.w.panic = "" /\ HasEntry(W(0), target) /\ ~IsLink(target)) =>
          OpenCnt(r.w, dir[target]) = OpenCnt(W(0), dir[target]))

\* The threads whose symlink call has just made its link, filesys_symlink
\* having returned true, and still hold filesys_mutex.
LinkWritten ==
  {t \in Threads : /\ thread[t].pc = "sema_up"
                   /\ thread[t].op = "symlink"
                   /\ thread[t].stage = 2
                   /\ thread[t].ret}

\* The threads between the two locked sections of symlink: target has opened
\* and the link is not made yet.
Checked ==
  {t \in Threads : /\ thread[t].pc = "sema_down"
                   /\ thread[t].op = "symlink"
                   /\ thread[t].stage = 2}

\* C36: symlink's check that target opens and its making of the link are one
\* atomic step for the other threads: while a thread is between the two no
\* other thread's call changes the directory, and when the link is written
\* by a symlink that returns 0, target is in the directory.
C36_SymlinkIsAtomic ==
  /\ [](\A t \in LinkWritten : HasEntry(W(0), thread[t].target))
  /\ [][Checked # {} /\ Checked' # {} => dir' = dir]_vars

\* The files there are: the inodes in use and, once the file system is
\* mounted, the root directory, whose inode do_format made in ROOT_DIR_SECTOR.
Existing ==
  Holders
    \cup (IF free_map_file # NULL
          THEN {[sector |-> ROOT_DIR_SECTOR,
                 run |-> Range(AsInode(disk[ROOT_DIR_SECTOR]).start,
                               bytes_to_sectors(
                                 AsInode(disk[ROOT_DIR_SECTOR]).length))]}
          ELSE {})

\* The sectors of a file: that of its inode and those of its data.
SectorsOf(h) == {h.sector} \cup h.run

\* C37: no sector belongs to two files.  The inode sectors and the data runs
\* of the files there are, the free-map file and the root directory among
\* them, are pairwise disjoint, and free_map_allocate returns no sector that
\* belongs to one of them.
C37_NoSharedSector ==
  panic = "" =>
    /\ \A g \in Existing :
         /\ g.sector \notin g.run
         /\ \A h \in Existing :
              g.sector # h.sector => SectorsOf(g) \cap SectorsOf(h) = {}
    /\ Running =>
         \A cnt \in 0 .. MaxCnt, fail \in 0 .. 1 :
           Let(free_map_allocate(W(fail), cnt, 0), LAMBDA a :
             a.v => \A h \in Existing :
                      Range(a.sectorp, cnt) \cap SectorsOf(h) = {})

\* filesys_create has made a file while a removed file with a data sector is
\* still open: the new file's inode is in a sector of its own.
C37_Witness ==
  /\ panic = ""
  /\ last.op = "filesys_create" /\ last.ret
  /\ \E i \in 1 .. Len(open_inodes), name \in Names :
       /\ open_inodes[i].removed
       /\ open_inodes[i].data.length > 0
       /\ HasEntry(W(0), name)
       /\ \E a \in last.allocs : a[1] = 1 /\ a[2] = dir[name]
       /\ dir[name] # open_inodes[i].sector
       /\ dir[name] \notin DataRun(open_inodes[i])

\* -------------------------------------------------------- lock discipline
\* The assertions of lock_acquire and lock_release: an acquire by the holder,
\* a release by a thread that does not hold the lock.
LockPanics ==
  {"assertion failed: !lock_held_by_current_thread (lock)",
   "assertion failed: lock_held_by_current_thread (lock)"}

\* World w2, left by a call that began with free_map_lock free, has the lock
\* free again, and no lock assertion failed in the call.
LocksBalanced(w2) ==
  /\ w2.panic \notin LockPanics
  /\ w2.panic = "" => ~w2.held

\* The threads that are inside a system call.
InCallSys == {t \in Threads : thread[t].pc \in {"sema_down", "filesys",
                                                 "sema_up"}}

\* C38: lock discipline.  filesys_mutex is down exactly while a thread is
\* between its sema_down and its sema_up, so it is free when no thread is
\* inside a call, and when it is down the thread that has it is at a step it
\* can take, which no waiting thread is; the call into the file system of the
\* thread that has it, and each entry point of the allocator called when no
\* thread is inside a call (free_map_allocate, free_map_release,
\* free_map_close followed by free_map_open), takes free_map_lock only when
\* it is free and leaves it free.
C38_LockDiscipline ==
  Running =>
    /\ filesys_mutex = 1 - Cardinality(InFilesys)
    /\ InCallSys = {} => filesys_mutex = 1
    /\ filesys_mutex = 0 =>
         \E t \in Threads : /\ thread[t].pc \in {"filesys", "sema_up"}
                            /\ \A u \in Threads \ {t} :
                                 thread[u].pc \notin {"filesys", "sema_up"}
    /\ \A t \in Threads :
         thread[t].pc = "filesys" => LocksBalanced(Inside(thread[t]).w)
    /\ InCallSys = {} =>
         \A cnt \in 0 .. MaxCnt, fail \in 0 .. 1 :
           Let(free_map_allocate(W(fail), cnt, 0), LAMBDA a :
             /\ LocksBalanced(a.w)
             /\ a.v => \A f2 \in 0 .. 1 :
                         LocksBalanced(free_map_release(Again(a.w, f2),
                                                        a.sectorp, cnt)))
    /\ (InCallSys = {} /\ BelowCap) =>
         Let(free_map_close(W(0)), LAMBDA c :
           /\ LocksBalanced(c)
           /\ \A fail \in 0 .. 1 :
                LocksBalanced(free_map_open(Again(c, fail))))

\* A thread has created a file, its free_map_allocate calls made and
\* returned, and has not yet raised the semaphore the other thread waits for.
C38_Witness ==
  \E t, u \in Threads :
    /\ panic = ""
    /\ thread[t].pc = "sema_up" /\ thread[t].op = "create"
    /\ thread[t].ret = TRUE
    /\ thread[u].pc = "sema_down"
    /\ filesys_mutex = 0

\* ------------------------------------------------- descriptors and exit
\* The entries of the descriptor tables that hold a file.
TableSlots ==
  {e \in Threads \X Slots : thread[e[1]].fd_table[e[2]] # NULL}

\* Every file in a descriptor table is open and is in one entry only, no
\* file_close was of a file closed before, and a thread that has exited
\* has an empty table.
TableHandlesOpen ==
  /\ panic # "file_close: freed file"
  /\ \A e \in TableSlots :
       /\ files[thread[e[1]].fd_table[e[2]]].live
       /\ \A g \in TableSlots :
            thread[g[1]].fd_table[g[2]] = thread[e[1]].fd_table[e[2]]
              => g = e
  /\ \A t \in Threads :
       thread[t].pc = "exited" => \A fd \in Slots :
                                     thread[t].fd_table[fd] = NULL

\* The step of close (fd), in exit or not, that is between sema_down and
\* sema_up: it empties the entry, and it closes the file that was there,
\* taking one from the open_cnt of its inode; on an empty entry it closes
\* nothing.
ClosesOnce ==
  \A t \in Threads :
    (/\ thread[t].pc = "filesys" /\ thread'[t].pc = "sema_up"
     /\ thread[t].op \in {"close", "exit"} /\ panic' = "")
      => LET fd == thread[t].fd
             file == thread[t].fd_table[fd]
             sector == open_inodes[CHOOSE i \in 1 .. Len(open_inodes) :
                         open_inodes[i].ptr = files[file].inode].sector
         IN  /\ thread'[t].fd_table[fd] = NULL
             /\ IF file = NULL
                THEN open_inodes' = open_inodes /\ files' = files
                ELSE /\ ~files'[file].live
                     /\ OpenCnt([open_inodes |-> open_inodes'], sector)
                          = OpenCnt(W(0), sector) - 1

\* No process has an inode open or denies writes to one: the free-map file
\* is the only file open.
NothingLeftOpen ==
  /\ UserFiles = {}
  /\ \A i \in 1 .. Len(open_inodes) :
       /\ open_inodes[i].sector = FREE_MAP_SECTOR
       /\ open_inodes[i].deny_write_cnt = 0

\* C39: each file in a descriptor table is closed exactly once, by close (fd)
\* or by exit, which empty the entry, and a process that has exited
\* contributes no open_cnt and no write-deny to any inode: when every process
\* has exited no inode but the free map's is open.
C39_HandlesClosedOnce ==
  /\ [](TableHandlesOpen)
  /\ []((Running /\ \A t \in Threads : thread[t].pc = "exited")
          => NothingLeftOpen)
  /\ [][ClosesOnce]_vars

====
